---- MODULE Spec2Model ----
(***************************************************************************)
(* Two services of fuel-core and its off-chain database as state machines. *)
(*                                                                         *)
(* The PoA block-production loop                                           *)
(* (crates/services/consensus_module/poa/src/service.rs, MainTask).  The   *)
(* loop is one cooperative task; the sync task, the transaction pool, the  *)
(* deadline clock, the senders of manual requests, the shutdown signal and *)
(* the passing of time are its environment.  Its specification is Spec     *)
(* (LiveSpec and RetrySpec with fairness).                                 *)
(*                                                                         *)
(* The gas price service                                                   *)
(* (crates/services/gas_price_service/src/v1/service.rs,                   *)
(* GasPriceServiceV1) with the DA source service that feeds it             *)
(* (v1/da_source_service/service.rs, DaSourceService).  The L2 block       *)
(* source, the DA oracle, the storage and the shutdown signal are their    *)
(* environment.  Its specification is GasSpec; DaSpec is the DA source     *)
(* alone, with a receiver that takes the bundles or goes away.             *)
(*                                                                         *)
(* The off-chain database of the GraphQL API                               *)
(* (crates/fuel-core/src/graphql_api/storage/coins.rs and balances.rs,     *)
(* service/genesis/off_chain.rs, service/adapters/graphql_api/             *)
(* off_chain.rs), as far as the coins-to-spend index and the balances go;  *)
(* the indexation that keeps the index is not among the sources read and   *)
(* is taken from the specification of the repository.  KeySpec builds and  *)
(* decodes the keys of the index, IndexSpec runs the index through the     *)
(* genesis import and the events of the executor, BalanceSpec reads the    *)
(* balance tables.                                                         *)
(*                                                                         *)
(* The three parts share no state: each specification holds the variables  *)
(* of the other parts at one value.                                        *)
(***************************************************************************)
EXTENDS Integers, Sequences, FiniteSets, TLC

(* ------------------------------ bounds -------------------------------- *)
\* Block heights of the model run from 0 to MaxHeight.
MaxHeight == 2
\* Tai64 seconds are 0..TaiMax; TaiMax stands for u64::MAX, so that
\* checked_add overflows above it.
TaiMax == 2
\* Instants (monotonic seconds) reach MaxNow seconds into the past.
MaxNow == 2
\* Pending manual requests in the mpsc channel.
MaxRequests == 1
\* Pending items of the tx-status stream.
MaxEvents == 1
\* Transactions waiting in the pool.
MaxPending == 1
\* Largest number_of_blocks of a manual request.
MaxBlocks == 2
\* Trigger::Interval { block_time }, in seconds.
BlockTime == 1
\* L2 block heights of the gas price service run from 0 to MaxL2.
MaxL2 == 3
\* Bundles on their way from the DA source to the updater: those waiting in
\* the broadcast channel and those in da_block_costs_buffer.
MaxBundles == 2
\* The updater counts the DA records it took up to MaxRecords, which stands for
\* "MaxRecords or more".
MaxRecords == 1

\* The coins and the messages that can ever exist on the chain.
MaxCoins == 3
MaxMessages == 2

(* ----------------------------- constants ------------------------------ *)
NoTime == -1            \* Option<Tai64>::None, and the Err of next_time
NoDeadline == -1        \* the deadline clock is disabled

Triggers == {"Never", "Instant", "Interval"}
TaiTimes == 0..TaiMax

VARIABLES
    trigger,             \* Config::trigger
    signing_key,         \* signing_key.is_some()
    last_height,         \* MainTask::last_height
    last_timestamp,      \* MainTask::last_timestamp
    last_block_created,  \* MainTask::last_block_created (an Instant)
    timer_deadline,      \* DeadlineClock: the armed deadline, or NoDeadline
    timer_event,         \* DeadlineClock: an expiry waits to be taken by wait()
    sync_state,          \* the SyncTask's watch value: "NotSynced" / "Synced"
    sync_changed,        \* sync_state.changed() of the inner select is ready
    requests,            \* manual requests waiting in request_receiver
    tx_events,           \* items waiting in tx_status_update_stream
    pending_number,      \* txpool.pending_number()
    shutdown,            \* the StateWatcher left the Started state
    pc,                  \* where the task is: see TypeOK
    manual,              \* the manual production in progress
    ev                   \* what the last step of the loop did (history)

\* The off-chain database of the GraphQL API and the chain it indexes.
VARIABLES
    off_chain_db,   \* the tables CoinsToSpendIndex, CoinBalances, MessageBalances
    on_chain,       \* the coins and messages the executor has reported
    off_ev          \* the last call on the database: its input and result

off_chain == << off_chain_db, on_chain, off_ev >>

vars == << trigger, signing_key, last_height, last_timestamp, last_block_created,
           timer_deadline, timer_event, sync_state, sync_changed, requests,
           tx_events, pending_number, shutdown, pc, manual, ev,
           off_chain >>

config == << trigger, signing_key >>
fields == << last_height, last_timestamp, last_block_created >>
clock == << timer_deadline, timer_event >>

\* The gas price service and its DA source service.
VARIABLES
    l2_block_source,       \* the result get_l2_block is ready with, or NoResult
    da_source_channel,     \* bundles sent by the DA source, not yet received
    da_block_costs_buffer, \* GasPriceServiceV1::da_block_costs_buffer
    algorithm_updater,     \* GasPriceServiceV1::algorithm_updater (in memory)
    storage,               \* the persisted state: the metadata, the recorded
                           \* height, and the heights the ticks wrote into
                           \* the unrecorded blocks
    shared_algo,           \* the algorithm the readers of SharedV1Algorithm see
    latest_l2_block,       \* the Arc<Mutex<_>> both services share
    recorded_height,       \* DaSourceService::recorded_height
    gas_pc,                \* where the controller's task is: see GasTypeOK
    da_source,             \* the DA source service: "started" / "stopped"
    gas_ev                 \* what the last step of the service did (history)

controller == << l2_block_source, da_source_channel, da_block_costs_buffer,
                 algorithm_updater, storage, shared_algo, latest_l2_block,
                 recorded_height, gas_pc, da_source, gas_ev, off_chain >>

NoHeight == -1          \* Option<BlockHeight>::None, Option<u32>::None

L2Heights == 0..MaxL2

\* DaBlockCosts.  A bundle is known by the last L2 height it covers,
\* l2_blocks.end().  On a chain of MaxL2 blocks a bundle that ends at MaxL2 or
\* above is filtered out by the DA source whatever the tip is; the oracle's
\* answers are made of the bundles that end below.
Bundles == 0..(MaxL2 - 1)

\* BlockInfo, and the Err a source can return in its place.  Of the fields of
\* a block the height is kept; whether its block_gas_capacity is zero is
\* chosen when the tick validates it.
BlockInfos ==
    { [kind |-> "Genesis", height |-> 0] }
    \cup [kind : {"Block"}, height : L2Heights \ {0}]
SourceResults ==
    BlockInfos \cup { [kind |-> "Err", height |-> 0] }
\* get_l2_block is pending.
NoResult == [kind |-> "None", height |-> 0]

\* AlgorithmUpdaterV1, as far as the service can tell two updaters apart: the
\* height of the last L2 block it took and the number of DA records it took.
Updaters == [l2_block_height : L2Heights, da_records : 0..MaxRecords]

\* What a step did: of a tick, its result, the height of its block, the
\* bundles it gave to the updater and whether it committed; of a poll of the
\* DA source, its result and, where the poll is observed, the oracle's answer.
GasEv(op, res, height, applied, committed) ==
    [op |-> op, res |-> res, height |-> height, applied |-> applied,
     committed |-> committed, answer |-> << >>]

\* The service as UninitializedTask hands it to the runner: the persisted
\* metadata, the updater in memory and the published algorithm describe the
\* same L2 height, which is the height of the chain's tip; the DA source starts
\* with recorded_height None (new_da_service, lines 209-220 of
\* da_source_service/service.rs); GasPriceServiceV1::new (lines 135-154)
\* starts with an empty buffer.
GasStart(height) ==
    /\ l2_block_source = NoResult
    /\ da_source_channel = << >>
    /\ da_block_costs_buffer = << >>
    /\ algorithm_updater = [l2_block_height |-> height, da_records |-> 0]
    /\ storage = [metadata |-> [l2_block_height |-> height, da_records |-> 0],
                  recorded_height |-> NoHeight,
                  unrecorded_blocks |-> {}]
    /\ shared_algo = [l2_block_height |-> height, da_records |-> 0]
    /\ latest_l2_block = height
    /\ recorded_height = NoHeight
    /\ gas_pc = "run"
    /\ da_source = "started"
    /\ gas_ev = GasEv("none", "none", NoHeight, << >>, FALSE)

\* The gas price service as the specification of the PoA loop holds it.
GasIdle == GasStart(0)

(* ---------------- the off-chain database: its data ------------------- *)

\* Address::LEN, AssetId::LEN, TxId::LEN, Nonce::LEN: the byte arrays of the
\* test vectors of coins.rs have 32 bytes each.
Address_LEN == 32
AssetId_LEN == 32
TxId_LEN == 32
Nonce_LEN == 32
\* u8::BITS, u16::BITS, u64::BITS and ItemAmount::BITS: amount() returns the
\* u64 it decoded as an ItemAmount, so that ItemAmount is u64.
u8_BITS == 8
u16_BITS == 16
u64_BITS == 64
ItemAmount_BITS == 64

\* indexation::coins_to_spend::{NON_RETRYABLE_BYTE, RETRYABLE_BYTE,
\* MESSAGE_PADDING_BYTES}, as the test vectors of coins.rs pin them: the key
\* of a coin and of a message without data holds 0x01 at offset 64, the key of
\* a message with data holds 0x00, the key of a message ends in 0xFF 0xFF.
NON_RETRYABLE_BYTE == 1
RETRYABLE_BYTE == 0
MESSAGE_PADDING_BYTES == << 255, 255 >>

\* A 32-byte array that counts up from a first byte (the arrays of the test
\* vectors), and one with a last byte of its own.
Bytes32(first) == [i \in 1..32 |-> (first + i - 1) % 256]
Bytes32Ending(first, last) == [Bytes32(first) EXCEPT ![32] = last]

\* The samples the inputs are drawn from.  Two owners and two assets that
\* differ in their last byte only; the base asset is the first.
Owners == { Bytes32(0), Bytes32Ending(0, 0) }
base_asset_id == Bytes32(32)
Assets == { base_asset_id, Bytes32Ending(32, 0) }
\* Transaction ids and nonces are both 32 bytes and are drawn from the same
\* arrays.
Ids == { Bytes32(80), Bytes32Ending(80, 255) }
\* u16 output indices: 0xFEFF is that of the test vector.  An index is below
\* the number of outputs of its transaction, a u16, so that no coin of a
\* chain has the index 0xFFFF; from_coin takes it as any other.
OutputIndices == { 0, 65279, 65534, 65535 }
\* u64 amounts, among them neighbours that differ in one byte and in two, and
\* the amount 0x40414243 of four different bytes.
Amounts == { 0, 1, 255, 256, 65536, 1078018627 }

\* Coin (fuel_core_types), without its tx_pointer.
Coins ==
    [utxo_id : [tx_id : Ids, output_index : OutputIndices],
     owner : Owners, amount : Amounts, asset_id : Assets]
\* Message (fuel_core_types): of its data, whether there are any.
Messages ==
    [recipient : Owners, amount : Amounts, nonce : Ids,
     data : { << >>, << 1 >> }]

NoCoin ==
    [utxo_id |-> [tx_id |-> << >>, output_index |-> 0],
     owner |-> << >>, amount |-> 0, asset_id |-> << >>]
NoMessage ==
    [recipient |-> << >>, amount |-> 0, nonce |-> << >>, data |-> << >>]
NoKey == << >>

\* What the accessors of a key returned.  utxo_id can panic.
NoUtxoId == [panicked |-> FALSE, tx_id |-> << >>, output_index |-> 0]
NoDecoded ==
    [owner |-> << >>, asset_id |-> << >>, retryable_flag |-> 0, amount |-> 0,
     foreign_key_bytes |-> << >>, utxo_id |-> NoUtxoId]

\* A call on the database or on a key: its input, the key it built, what the
\* accessors decoded, and its result.
OffEv(op, coin, message, key, decoded, result) ==
    [op |-> op, coin |-> coin, message |-> message, key |-> key,
     decoded |-> decoded, result |-> result]
NoResultYet == [kind |-> "none", ids |-> << >>, total |-> << >>]

\* The database before the first event, with nothing on the chain.
OffChainIdle ==
    /\ off_chain_db = [index |-> {}, coin_balances |-> << >>,
                       message_balances |-> << >>]
    /\ on_chain = [coins |-> {}, messages |-> {}, spent |-> {},
                   consumed |-> {}, genesis |-> FALSE]
    /\ off_ev = OffEv("none", NoCoin, NoMessage, NoKey, NoDecoded, NoResultYet)

\* Instant::now().  Instants are measured from an origin that moves with the
\* time: the present is always MaxNow, and a second that passes (Tick) moves
\* every Instant the task holds one second into the past.
now == MaxNow

NoManual == [left |-> 0, time |-> 0, mode |-> "none"]

Min(a, b) == IF a <= b THEN a ELSE b

(* ------------------------- pure functions ----------------------------- *)

\* An increase_time that wraps around at the end of the u64 range.
increase_time_wrapping(time, duration) == (time + duration) % (TaiMax + 1)

\* increase_time: checked_add on the u64 seconds; NoTime is the Err.
increase_time(time, duration) ==
    IF time + duration > TaiMax THEN NoTime ELSE time + duration

\* A next_height that skips a height.
next_height_skips == last_height + 2

\* MainTask::next_height.
next_height == last_height + 1

\* MainTask::next_time for a task whose fields are lt (last_timestamp) and
\* lc (last_block_created); tai is what Tai64::now() returns.
next_time(lt, lc, request_type, tai) ==
    LET manual_time ==
            IF trigger \in {"Never", "Instant"}
            THEN increase_time(lt, now - lc)        \* last_block_created.elapsed()
            ELSE increase_time(lt, BlockTime)
    IN  IF request_type = "Manual" THEN manual_time
        ELSE IF tai > lt THEN tai
        ELSE manual_time

\* MainTask::extract_block_info: the fields a block header gives when
\* Tai64::now() is tai.
extract_block_info(header, tai) ==
    LET duration_since_last_block ==
            IF tai >= header.time THEN tai - header.time ELSE 0   \* saturating_sub
    IN  [ height  |-> header.height,
          time    |-> header.time,
          created |-> IF duration_since_last_block <= now         \* checked_sub
                      THEN now - duration_since_last_block
                      ELSE now ]                                  \* unwrap_or

\* An update_last_block_values that adopts a header of the height the task
\* already has.
update_last_block_values_at_same_height(header, tai) ==
    LET info == extract_block_info(header, tai)
    IN  IF info.height >= last_height
        THEN info
        ELSE [height |-> last_height, time |-> last_timestamp,
              created |-> last_block_created]

\* MainTask::update_last_block_values: the fields after a sync update.
update_last_block_values(header, tai) ==
    LET info == extract_block_info(header, tai)
    IN  IF info.height > last_height
        THEN info
        ELSE [height |-> last_height, time |-> last_timestamp,
              created |-> last_block_created]

\* DeadlineClock::set_deadline: the deadline after arming with the policy.
set_deadline(deadline, on_conflict) ==
    IF on_conflict = "Min" /\ timer_deadline # NoDeadline
    THEN Min(timer_deadline, deadline)
    ELSE deadline

(* ---------------------- the block producer's answers ------------------- *)

\* What the collaborators of one production answer: whether the block
\* producer returns a block, how many pool transactions it reports as
\* skipped, how many it includes, and whether the importer commits.  An
\* answer that is never asked for (the skipped transactions of a producer
\* that failed) is left at its default.
Answers(source) ==
    LET pool == IF source = "TxPool" THEN pending_number ELSE 0
    IN  { a \in [produced : BOOLEAN, skipped : 0..pool,
                 included : 0..pool, committed : BOOLEAN] :
            /\ a.skipped + a.included <= pool
            /\ ~a.produced => a.skipped = 0 /\ a.included = 0 /\ a.committed
            /\ ~a.committed => a.included = 0 }

\* The answers of collaborators that never fail.
Successes(source) == { a \in Answers(source) : a.produced /\ a.committed }

\* The result of a production that changed no field of the task: pend is the
\* pool's size afterwards, prod/rm/imp tell which collaborators were called.
Kept(res, pend, prod, rm, imp) ==
    [ res |-> res, height |-> last_height, time |-> last_timestamp,
      created |-> last_block_created, deadline |-> timer_deadline,
      pending |-> pend, prod |-> prod, rm |-> rm, imp |-> imp ]

\* A re-arming that uses OnConflict::Overwrite for every kind of production.
rearm_always_overwrite(request_type, start) ==
    IF trigger = "Interval"
    THEN set_deadline(start + BlockTime, "Overwrite")
    ELSE timer_deadline

\* The timer after a successful produce_block that started at the Instant
\* start (lines 383-400).
rearm(request_type, start) ==
    IF trigger = "Interval"
    THEN set_deadline(start + BlockTime,
                      IF request_type = "Trigger" THEN "Min" ELSE "Overwrite")
    ELSE timer_deadline

\* A commit failure noticed only after lines 379-381 updated the fields.
commit_failed_after_update(height, block_time, start, a) ==
    [ Kept("commit_err", pending_number - a.skipped, TRUE, TRUE, TRUE)
        EXCEPT !.height = height, !.time = block_time, !.created = start ]

\* A commit failure of a produce_block that calls txpool.remove_txs only
\* after the importer committed: the skipped transactions stay in the pool.
commit_failed_skipped_kept(height, block_time, start, a) ==
    Kept("commit_err", pending_number, TRUE, FALSE, TRUE)

\* produce_block when BlockImporter::commit_result fails (lines 371-376): the
\* skipped transactions have left the pool, the `?` returns before line 379.
commit_failed(height, block_time, start, a) ==
    Kept("commit_err", pending_number - a.skipped, TRUE, TRUE, TRUE)

\* A produce_block that does not compare block_time with last_timestamp.
produce_block_any_time(height, block_time, source, request_type, a) ==
    IF ~signing_key
    THEN Kept("no_key", pending_number, FALSE, FALSE, FALSE)
    ELSE IF ~a.produced
    THEN Kept("producer_err", pending_number, TRUE, FALSE, FALSE)
    ELSE IF ~a.committed
    THEN commit_failed(height, block_time, now, a)
    ELSE [ res |-> "ok", height |-> height, time |-> block_time,
           created |-> now, deadline |-> rearm(request_type, now),
           pending |-> pending_number - a.skipped - a.included,
           prod |-> TRUE, rm |-> TRUE, imp |-> TRUE ]

\* MainTask::produce_block (lines 322-403).
produce_block(height, block_time, source, request_type, a) ==
    LET start == now IN
    IF ~signing_key
    THEN Kept("no_key", pending_number, FALSE, FALSE, FALSE)
    ELSE IF last_timestamp > block_time
    THEN Kept("non_monotonic", pending_number, FALSE, FALSE, FALSE)
    ELSE IF ~a.produced
    THEN Kept("producer_err", pending_number, TRUE, FALSE, FALSE)
    ELSE IF ~a.committed
    THEN commit_failed(height, block_time, start, a)
    ELSE IF trigger = "Never" /\ request_type = "Trigger"
    THEN [ res |-> "panic", height |-> height, time |-> block_time,
           created |-> start, deadline |-> timer_deadline,
           pending |-> pending_number - a.skipped - a.included,
           prod |-> TRUE, rm |-> TRUE, imp |-> TRUE ]
    ELSE [ res |-> "ok", height |-> height, time |-> block_time,
           created |-> start, deadline |-> rearm(request_type, start),
           pending |-> pending_number - a.skipped - a.included,
           prod |-> TRUE, rm |-> TRUE, imp |-> TRUE ]

\* MainTask::produce_next_block (lines 277-285).
produce_next_block(tai, a) ==
    LET time == next_time(last_timestamp, last_block_created, "Trigger", tai)
    IN  IF time = NoTime
        THEN Kept("time_overflow", pending_number, FALSE, FALSE, FALSE)
        ELSE produce_block(next_height, time, "TxPool", "Trigger", a)

\* A produce_predefined_block that looks for the signing key only when it
\* seals, after the block producer was called.
produce_predefined_block_late_key(block, a) ==
    IF ~a.produced
    THEN Kept("producer_err", pending_number, TRUE, FALSE, FALSE)
    ELSE IF ~signing_key
    THEN Kept("no_key", pending_number, TRUE, FALSE, FALSE)
    ELSE IF ~a.committed
    THEN Kept("commit_err", pending_number, TRUE, FALSE, TRUE)
    ELSE [ res |-> "ok", height |-> block.height, time |-> block.time,
           created |-> now, deadline |-> timer_deadline,
           pending |-> pending_number,
           prod |-> TRUE, rm |-> FALSE, imp |-> TRUE ]

\* MainTask::produce_predefined_block (lines 405-467) for the predefined
\* block `block`.
produce_predefined_block(block, a) ==
    LET start == now IN
    IF ~signing_key
    THEN Kept("no_key", pending_number, FALSE, FALSE, FALSE)
    ELSE IF ~a.produced
    THEN Kept("producer_err", pending_number, TRUE, FALSE, FALSE)
    ELSE IF ~a.committed
    THEN Kept("commit_err", pending_number, TRUE, FALSE, TRUE)
    ELSE [ res |-> "ok", height |-> block.height, time |-> block.time,
           created |-> start, deadline |-> timer_deadline,
           pending |-> pending_number,
           prod |-> TRUE, rm |-> FALSE, imp |-> TRUE ]

(* ------------------------------ history ------------------------------- *)

\* The record of one step of the loop: op is the step, res the result of the
\* production it ran ("skip": it ran none), cont what run() returned ("none":
\* the iteration has not ended), resp the answer sent on a manual request's
\* one-shot channel, prod/rm/imp whether the block producer, txpool.remove_txs
\* and the importer were called, start the start_time of the manual request
\* the step received (NoTime: None, or no request).
Ev(op, res, cont, resp, prod, rm, imp) ==
    [ op |-> op, res |-> res, cont |-> cont, resp |-> resp,
      prod |-> prod, rm |-> rm, imp |-> imp, start |-> NoTime ]

\* The record of a step that ran the production with result r.
EvOf(op, r, cont, resp) == Ev(op, r.res, cont, resp, r.prod, r.rm, r.imp)

\* The record of a step that ran no production.
EvSkip(op, cont) == Ev(op, "skip", cont, "none", FALSE, FALSE, FALSE)

\* The task's fields, the timer and the pool after a production with result r.
Apply(r) ==
    /\ last_height' = r.height
    /\ last_timestamp' = r.time
    /\ last_block_created' = r.created
    /\ timer_deadline' = r.deadline
    /\ pending_number' = r.pending

\* What ServiceRunner does with the result of run(): Ok(true) and Err(_) call
\* run() again, Ok(false) stops the task, a panic ends it.
AfterRun(cont) ==
    CASE cont = "true"  -> "gate"
      [] cont = "err"   -> "gate"
      [] cont = "false" -> "stopped"
      [] cont = "panic" -> "panicked"

\* What run() returns after a trigger-driven production with result r
\* (the `?` of lines 610 and 617).
ContOf(r) ==
    CASE r.res \in {"ok", "skip"} -> "true"
      [] r.res = "panic"          -> "panic"
      [] OTHER                    -> "err"

(* ------------------------------- Init --------------------------------- *)

\* MainTask::new (lines 163-216): the fields of the last block's header, a
\* disabled deadline clock, an empty request channel.
Init ==
    /\ trigger \in Triggers
    /\ signing_key \in BOOLEAN
    /\ last_height = 0
    /\ last_timestamp \in TaiTimes
    /\ last_block_created = now
    /\ timer_deadline = NoDeadline
    /\ timer_event = FALSE
    /\ sync_state = "NotSynced"
    /\ sync_changed = FALSE
    /\ requests = 0
    /\ tx_events = 0
    /\ pending_number = 0
    /\ shutdown = FALSE
    /\ pc = "new"
    /\ manual = NoManual
    /\ ev = Ev("none", "skip", "none", "none", FALSE, FALSE, FALSE)
    /\ GasIdle
    /\ OffChainIdle

(* --------------------------- the environment -------------------------- *)

\* The environment acts while the task is suspended: before it is started, in
\* one of its selects, or in an awaited call of a manual production.  Between
\* the return of run() and the next select ("gate", "iter") the task does not
\* await.
Running == pc \in {"new", "syncing", "select", "manual"}

\* A second passes: the Instants the task holds are one second older.  An
\* Instant older than MaxNow seconds is remembered as MaxNow seconds old, a
\* deadline that is reached stays reached.
Tick ==
    /\ Running
    /\ last_block_created' = IF last_block_created > 0
                             THEN last_block_created - 1 ELSE 0
    /\ timer_deadline' = IF timer_deadline > now
                         THEN timer_deadline - 1 ELSE timer_deadline
    /\ UNCHANGED << controller, config, last_height, last_timestamp, timer_event,
                    sync_state, sync_changed, requests, tx_events,
                    pending_number, shutdown, pc, manual, ev >>

\* DeadlineClock: the armed deadline is reached; the clock disables itself
\* and hands the expiry to wait().
ClockFire ==
    /\ Running
    /\ timer_deadline # NoDeadline
    /\ now >= timer_deadline
    /\ timer_deadline' = NoDeadline
    /\ timer_event' = TRUE
    /\ UNCHANGED << controller, config, fields, sync_state, sync_changed, requests,
                    tx_events, pending_number, shutdown, pc, manual, ev >>

\* SyncTask: the node is caught up, or a block was imported while it is:
\* the watch value becomes Synced(header of the last imported block).  A
\* task that waits in the inner select sees the change; elsewhere the next
\* borrow_and_update marks it seen.
SyncUpdate ==
    /\ Running
    /\ sync_state' = "Synced"
    /\ sync_changed' = (pc = "syncing")
    /\ UNCHANGED << controller, config, fields, clock, requests, tx_events, pending_number,
                    shutdown, pc, manual, ev >>

\* SharedState::manually_produce_block (lines 91-105): a request is sent.
SendRequest ==
    /\ Running
    /\ requests < MaxRequests
    /\ requests' = requests + 1
    /\ UNCHANGED << controller, config, fields, clock, sync_state, sync_changed, tx_events,
                    pending_number, shutdown, pc, manual, ev >>

\* The pool accepts a transaction and reports its status.
InsertTx ==
    /\ Running
    /\ pending_number < MaxPending
    /\ tx_events < MaxEvents
    /\ pending_number' = pending_number + 1
    /\ tx_events' = tx_events + 1
    /\ UNCHANGED << controller, config, fields, clock, sync_state, sync_changed, requests,
                    shutdown, pc, manual, ev >>

\* The pool reports a status that is no new submission.
PoolEvent ==
    /\ Running
    /\ tx_events < MaxEvents
    /\ tx_events' = tx_events + 1
    /\ UNCHANGED << controller, config, fields, clock, sync_state, sync_changed, requests,
                    pending_number, shutdown, pc, manual, ev >>

\* The service is asked to stop.
Shutdown ==
    /\ Running
    /\ ~shutdown
    /\ shutdown' = TRUE
    /\ UNCHANGED << controller, config, fields, clock, sync_state, sync_changed, requests,
                    tx_events, pending_number, pc, manual, ev >>

(* ------------------------------ the loop ------------------------------ *)

\* The headers the watch of the sync task may hold when the loop reads it:
\* the header of any block above last_height, or the header of the block at
\* last_height (a header further below is passed over exactly as that one).
Headers ==
    { h \in [height : 0..MaxHeight, time : TaiTimes] :
        \/ h.height > last_height
        \/ h.height = last_height /\ h.time = last_timestamp }

\* The values of Tai64::now() that extract_block_info may see for a header;
\* the clock is read for nothing when the header is not adopted.
TaiFor(header) ==
    IF sync_state = "Synced" /\ header.height > last_height
    THEN TaiTimes ELSE {0}

\* The answers the collaborators may give: all of them, or only successes.
Ans(source, ok_only) == IF ok_only THEN Successes(source) ELSE Answers(source)

\* RunnableService::into_task (lines 521-538): the sync task is started and,
\* under Trigger::Interval, the timer is armed with set_timeout(block_time).
IntoTask ==
    /\ pc = "new"
    /\ timer_deadline' = IF trigger = "Interval"
                         THEN set_deadline(now + BlockTime, "Overwrite")
                         ELSE timer_deadline
    /\ pc' = "gate"
    /\ ev' = EvSkip("into_task", "none")
    /\ UNCHANGED << controller, config, fields, timer_event, sync_state, sync_changed,
                    requests, tx_events, pending_number, shutdown, manual >>

\* A gate that never closes.
gate_never_closed == FALSE

\* A gate that opens for a manual request that waits in the channel.
gate_open_for_requests == sync_state = "NotSynced" /\ requests = 0

\* Whether the `while` of line 553 enters its body.
gate_closed == sync_state = "NotSynced"

\* Lines 572-574: the header of a Synced state is adopted; header is the
\* header the watch holds, tai is Tai64::now().
AdoptHeader(header, tai) ==
    LET v == IF sync_state = "Synced"
             THEN update_last_block_values(header, tai)
             ELSE [height |-> last_height, time |-> last_timestamp,
                   created |-> last_block_created]
    IN  /\ last_height' = v.height
        /\ last_timestamp' = v.time
        /\ last_block_created' = v.created

\* run(), line 553 with the state NotSynced: the task enters the inner select.
GateNotSynced ==
    /\ pc = "gate"
    /\ gate_closed
    /\ sync_changed' = FALSE                     \* borrow_and_update
    /\ pc' = "syncing"
    /\ ev' = EvSkip("gate", "none")
    /\ UNCHANGED << controller, config, fields, clock, sync_state, requests, tx_events,
                    pending_number, shutdown, manual >>

\* run(), line 553 with a Synced state: the loop is skipped, lines 572-574
\* adopt the header.
GateSynced ==
    /\ pc = "gate"
    /\ ~gate_closed
    /\ sync_changed' = FALSE
    /\ \E header \in Headers : \E tai \in TaiFor(header) :
         AdoptHeader(header, tai)
    /\ pc' = "iter"
    /\ ev' = EvSkip("synced", "none")
    /\ UNCHANGED << controller, config, clock, sync_state, requests, tx_events,
                    pending_number, shutdown, manual >>

\* The branch the biased select of lines 554-569 takes ("pending": none is
\* ready).
syncing_branch ==
    IF shutdown THEN "shutdown"
    ELSE IF sync_changed THEN "changed"
    ELSE IF tx_events > 0 THEN "txpool"
    ELSE IF timer_event THEN "timer"
    ELSE "pending"

\* Lines 556-559: shutdown while syncing.
SyncingShutdown ==
    /\ pc = "syncing"
    /\ syncing_branch = "shutdown"
    /\ pc' = AfterRun("false")
    /\ ev' = EvSkip("sync_shutdown", "false")
    /\ UNCHANGED << controller, config, fields, clock, sync_state, sync_changed, requests,
                    tx_events, pending_number, shutdown, manual >>

\* Lines 560-562 and 572-574: the sync state changed, the loop is left.
SyncingChanged ==
    /\ pc = "syncing"
    /\ syncing_branch = "changed"
    /\ sync_changed' = FALSE
    /\ \E header \in Headers : \E tai \in TaiFor(header) :
         AdoptHeader(header, tai)
    /\ pc' = "iter"
    /\ ev' = EvSkip("sync_changed", "none")
    /\ UNCHANGED << controller, config, clock, sync_state, requests, tx_events,
                    pending_number, shutdown, manual >>

\* Lines 563-565: a tx-pool event is taken and ignored.
SyncingTxpool ==
    /\ pc = "syncing"
    /\ syncing_branch = "txpool"
    /\ tx_events' = tx_events - 1
    /\ pc' = "gate"
    /\ ev' = EvSkip("sync_txpool", "none")
    /\ UNCHANGED << controller, config, fields, clock, sync_state, sync_changed, requests,
                    pending_number, shutdown, manual >>

\* Lines 566-568: a timer expiry is taken and ignored.
SyncingTimer ==
    /\ pc = "syncing"
    /\ syncing_branch = "timer"
    /\ timer_event' = FALSE
    /\ pc' = "gate"
    /\ ev' = EvSkip("sync_timer", "none")
    /\ UNCHANGED << controller, config, fields, timer_deadline, sync_state, sync_changed,
                    requests, tx_events, pending_number, shutdown, manual >>

\* Lines 576-581: PredefinedBlocks::get_block(next_height) holds a block; it
\* is produced and run() returns.
IterPredefined(ok_only) ==
    /\ pc = "iter"
    /\ last_height < MaxHeight
    /\ \E time \in TaiTimes, a \in Ans("Predefined", ok_only) :
         LET r == produce_predefined_block(
                      [height |-> next_height, time |-> time], a)
             cont == IF r.res = "ok" THEN "true" ELSE "err"
         IN  /\ Apply(r)
             /\ pc' = AfterRun(cont)
             /\ ev' = EvOf("predefined", r, cont, "none")
    /\ UNCHANGED << controller, config, timer_event, sync_state, sync_changed, requests,
                    tx_events, shutdown, manual >>

\* Lines 576-583: there is no predefined block for next_height; the task
\* enters the main select.
IterSelect ==
    /\ pc = "iter"
    /\ last_height < MaxHeight
    /\ pc' = "select"
    /\ ev' = EvSkip("select", "none")
    /\ UNCHANGED << controller, config, fields, clock, sync_state, sync_changed, requests,
                    tx_events, pending_number, shutdown, manual >>

\* A main select that polls the request channel before the shutdown signal.
select_branch_request_first ==
    IF requests > 0 THEN "request"
    ELSE IF shutdown THEN "shutdown"
    ELSE IF tx_events > 0 THEN "txpool"
    ELSE IF timer_event THEN "timer"
    ELSE "pending"

\* A main select that polls the tx-pool stream before the request channel.
select_branch_txpool_first ==
    IF shutdown THEN "shutdown"
    ELSE IF tx_events > 0 THEN "txpool"
    ELSE IF requests > 0 THEN "request"
    ELSE IF timer_event THEN "timer"
    ELSE "pending"

\* The branch the biased select of lines 583-620 takes.
select_branch ==
    IF shutdown THEN "shutdown"
    ELSE IF requests > 0 THEN "request"
    ELSE IF tx_events > 0 THEN "txpool"
    ELSE IF timer_event THEN "timer"
    ELSE "pending"

\* Lines 585-587.
SelectShutdown ==
    /\ pc = "select"
    /\ select_branch = "shutdown"
    /\ pc' = AfterRun("false")
    /\ ev' = EvSkip("shutdown", "false")
    /\ UNCHANGED << controller, config, fields, clock, sync_state, sync_changed, requests,
                    tx_events, pending_number, shutdown, manual >>

\* Lines 588-592 and 291-298: a manual request is received and
\* produce_manual_blocks computes the time of its first block.
SelectRequest ==
    /\ pc = "select"
    /\ select_branch = "request"
    /\ requests' = requests - 1
    /\ \E start_time \in {NoTime} \cup TaiTimes,
          mode \in {"Blocks", "BlockWithTransactions"},
          number_of_blocks \in 0..Min(MaxBlocks, MaxHeight - last_height) :
         LET block_time ==
                 IF start_time # NoTime THEN start_time
                 ELSE next_time(last_timestamp, last_block_created, "Manual", 0)
         IN  IF block_time = NoTime
             THEN /\ manual' = NoManual
                  /\ pc' = AfterRun("true")
                  /\ ev' = [Ev("request", "time_overflow", "true", "err",
                               FALSE, FALSE, FALSE)
                               EXCEPT !.start = start_time]
             ELSE IF mode = "Blocks" /\ number_of_blocks = 0
             THEN /\ manual' = NoManual
                  /\ pc' = AfterRun("true")
                  /\ ev' = [Ev("request", "skip", "true", "ok",
                               FALSE, FALSE, FALSE)
                               EXCEPT !.start = start_time]
             ELSE /\ manual' = [ left |-> IF mode = "Blocks"
                                          THEN number_of_blocks ELSE 1,
                                 time |-> block_time, mode |-> mode ]
                  /\ pc' = "manual"
                  /\ ev' = [EvSkip("request", "none")
                               EXCEPT !.start = start_time]
    /\ UNCHANGED << controller, config, fields, clock, sync_state, sync_changed, tx_events,
                    pending_number, shutdown >>

\* Lines 298-317 and 593-596: one produce_block of the manual request; the
\* request ends, and is answered, at the first error or after its last block.
ManualStep(ok_only) ==
    /\ pc = "manual"
    /\ LET source == IF manual.mode = "Blocks"
                     THEN "TxPool" ELSE "SpecificTransactions"
       IN  \E a \in Ans(source, ok_only) :
             LET r == produce_block(next_height, manual.time, source, "Manual", a)
                 next == next_time(r.time, r.created, "Manual", 0)
                 resp == IF r.res # "ok" THEN "err"
                         ELSE IF manual.mode # "Blocks" THEN "ok"
                         ELSE IF next = NoTime THEN "err"
                         ELSE IF manual.left = 1 THEN "ok"
                         ELSE "none"
             IN  /\ Apply(r)
                 /\ IF resp = "none"
                    THEN /\ manual' = [manual EXCEPT !.left = @ - 1,
                                                     !.time = next]
                         /\ pc' = "manual"
                         /\ ev' = EvOf("manual", r, "none", "none")
                    ELSE /\ manual' = NoManual
                         /\ pc' = AfterRun("true")
                         /\ ev' = EvOf("manual", r, "true", resp)
    /\ UNCHANGED << controller, config, timer_event, sync_state, sync_changed, requests,
                    tx_events, shutdown >>

\* An on_txpool_event that does not look at the trigger.
on_txpool_event_any_trigger(tai, a) ==
    IF pending_number > 0
    THEN produce_next_block(tai, a)
    ELSE Kept("skip", pending_number, FALSE, FALSE, FALSE)

\* An on_txpool_event that does not look at pending_number.
on_txpool_event_unconditional(tai, a) ==
    IF trigger = "Instant"
    THEN produce_next_block(tai, a)
    ELSE Kept("skip", pending_number, FALSE, FALSE, FALSE)

\* MainTask::on_txpool_event (lines 469-481).
on_txpool_event(tai, a) ==
    IF trigger = "Instant"
    THEN IF pending_number > 0
         THEN produce_next_block(tai, a)
         ELSE Kept("skip", pending_number, FALSE, FALSE, FALSE)
    ELSE Kept("skip", pending_number, FALSE, FALSE, FALSE)

\* MainTask::on_timer (lines 483-494).
on_timer(tai, a) ==
    IF trigger \in {"Instant", "Never"}
    THEN Kept("panic", pending_number, FALSE, FALSE, FALSE)
    ELSE produce_next_block(tai, a)

\* Lines 608-615: a tx-pool event is taken and handled.
SelectTxpool(ok_only) ==
    /\ pc = "select"
    /\ select_branch = "txpool"
    /\ tx_events' = tx_events - 1
    /\ \E tai \in TaiTimes, a \in Ans("TxPool", ok_only) :
         LET r == on_txpool_event(tai, a)
         IN  /\ Apply(r)
             /\ pc' = AfterRun(ContOf(r))
             /\ ev' = EvOf("txpool", r, ContOf(r), "none")
    /\ UNCHANGED << controller, config, timer_event, sync_state, sync_changed, requests,
                    shutdown, manual >>

\* Lines 616-619: the timer's expiry is taken and handled.
SelectTimer(ok_only) ==
    /\ pc = "select"
    /\ select_branch = "timer"
    /\ timer_event' = FALSE
    /\ \E tai \in TaiTimes, a \in Ans("TxPool", ok_only) :
         LET r == on_timer(tai, a)
         IN  /\ Apply(r)
             /\ pc' = AfterRun(ContOf(r))
             /\ ev' = EvOf("timer", r, ContOf(r), "none")
    /\ UNCHANGED << controller, config, sync_state, sync_changed, requests, tx_events,
                    shutdown, manual >>

(* ------------------------- the specification -------------------------- *)

Env ==
    \/ Tick
    \/ ClockFire
    \/ SyncUpdate
    \/ SendRequest
    \/ InsertTx
    \/ PoolEvent
    \/ Shutdown

Loop ==
    \/ IntoTask
    \/ GateNotSynced
    \/ GateSynced
    \/ SyncingShutdown
    \/ SyncingChanged
    \/ SyncingTxpool
    \/ SyncingTimer
    \/ IterPredefined(FALSE)
    \/ IterSelect
    \/ SelectShutdown
    \/ SelectRequest
    \/ ManualStep(FALSE)
    \/ SelectTxpool(FALSE)
    \/ SelectTimer(FALSE)

Next == Env \/ Loop

Spec == Init /\ [][Next]_vars

TypeOK ==
    /\ trigger \in Triggers
    /\ signing_key \in BOOLEAN
    /\ last_height \in 0..MaxHeight
    /\ last_timestamp \in TaiTimes
    /\ last_block_created \in 0..now
    /\ timer_deadline \in {NoDeadline} \cup now..(now + BlockTime)
    /\ timer_event \in BOOLEAN
    /\ sync_state \in {"NotSynced", "Synced"}
    /\ sync_changed \in BOOLEAN
    /\ requests \in 0..MaxRequests
    /\ tx_events \in 0..MaxEvents
    /\ pending_number \in 0..MaxPending
    /\ shutdown \in BOOLEAN
    /\ pc \in {"new", "gate", "syncing", "iter", "select", "manual",
               "stopped", "panicked"}
    /\ manual \in [left : 0..MaxBlocks, time : TaiTimes,
                   mode : {"none", "Blocks", "BlockWithTransactions"}]

(* ---------------- the specification for C8 (liveness) ----------------- *)

\* Trigger::Interval with a signing key.
LiveInit == Init /\ trigger = "Interval" /\ signing_key

\* No shutdown, no manual request, no predefined block, a quiet pool (the
\* biased select serves the pool before the timer; a pool that never falls
\* silent is another matter); the producer and the importer always succeed.
LiveEnv ==
    \/ SyncUpdate

LiveTime ==
    \/ Tick
    \/ ClockFire

\* The timer's expiry is handled; the collaborators succeed and the Tai64
\* clock is far from its last value, so the production commits a block.
TimerProduces == SelectTimer(TRUE) /\ ev'.res = "ok"

LiveLoop ==
    \/ IntoTask
    \/ GateNotSynced
    \/ GateSynced
    \/ SyncingChanged
    \/ SyncingTimer
    \/ IterSelect
    \/ TimerProduces

LiveNext == LiveEnv \/ LiveTime \/ LiveLoop

\* The task is polled whenever one of its steps is possible, time passes and
\* the deadline clock fires its deadline.
LiveSpec ==
    /\ LiveInit
    /\ [][LiveNext]_vars
    /\ WF_vars(LiveLoop)
    /\ WF_vars(Tick)
    /\ WF_vars(ClockFire)

(* ------------------------------ claims -------------------------------- *)

\* A step of the loop (the environment changes neither pc nor manual, every
\* step of the loop changes one of them).
LoopStep == pc' # pc \/ manual' # manual

ProductionOps == {"predefined", "manual", "txpool", "timer"}

\* A step of the loop that committed a block through the importer.
Committed == LoopStep /\ ev'.op \in ProductionOps /\ ev'.res = "ok"

\* C1: every block the loop commits (trigger-driven, manual or predefined)
\* has a timestamp >= last_timestamp: a production never lowers
\* last_timestamp.
C1_TimestampsNeverDecrease ==
    [][Committed => last_timestamp' >= last_timestamp]_vars

\* C2: every block the loop commits (trigger-driven, manual or predefined)
\* has the height last_height + 1, and last_height is that height afterwards.
C2_HeightsAreSuccessive ==
    [][Committed => last_height' = last_height + 1]_vars

\* A production committed the block of height 2 and run() returned.
C2_Witness ==
    /\ ev.op \in ProductionOps
    /\ ev.res = "ok"
    /\ last_height = 2
    /\ pc = "gate"

\* C3: whenever the loop asks the block producer for a block
\* (produce_and_execute_block or produce_predefined_block) the sync state is
\* Synced.
C3_SyncGateBlocksProduction ==
    [][(LoopStep /\ ev'.prod) => sync_state = "Synced"]_vars

\* A manual request, a tx-pool event or a timer expiry made the loop ask the
\* block producer, the node being Synced.
C3_Witness ==
    /\ ev.prod
    /\ sync_state = "Synced"
    /\ ev.op \in {"txpool", "timer", "manual"}

\* C4: a step that runs produce_block changes last_height, last_timestamp and
\* last_block_created only when commit_result succeeded, and then all three
\* together (height + 1, the block's time, the Instant the production
\* started); when it fails they and the timer's deadline keep their values.
C4_FieldsAdvanceOnlyAfterCommit ==
    [][(LoopStep /\ ev'.op \in {"manual", "txpool", "timer"}) =>
          IF ev'.res = "ok"
          THEN /\ ev'.imp
               /\ last_height' = last_height + 1
               /\ last_timestamp' >= last_timestamp
               /\ last_block_created' = now
          ELSE /\ UNCHANGED fields
               /\ timer_deadline' = timer_deadline]_vars

\* A produce_block reached the importer and its commit failed.
C4_Witness ==
    /\ ev.op \in {"manual", "txpool", "timer"}
    /\ ev.res = "commit_err"
    /\ ev.imp

\* C5: after BlockImporter::commit_result failed in a production the
\* iteration does not end with should_continue = true.
C5_CommitFailureStopsTask ==
    ev.res = "commit_err" => ev.cont # "true"

\* C6 as claimed: an iteration of the synced loop that starts with the
\* shutdown signal pending asks for no block and does not return
\* should_continue = true, whatever else is pending.
C6_ShutdownWinsIteration ==
    [][(LoopStep /\ shutdown /\ pc \in {"iter", "select"}) =>
          /\ ~ev'.prod
          /\ ev'.cont \in {"none", "false"}]_vars

\* C6 as amended: an iteration of the synced loop that starts with the
\* shutdown signal pending and finds no predefined block for next_height
\* returns should_continue = false, asks for no block and takes no pending
\* manual request, tx-pool event or timer expiry.
C6_ShutdownWinsSelect ==
    [][(LoopStep /\ shutdown /\ pc \in {"iter", "select"}
            /\ ev'.op # "predefined") =>
          /\ ~ev'.prod
          /\ ev'.cont = IF pc = "select" THEN "false" ELSE "none"
          /\ pc' = IF pc = "select" THEN "stopped" ELSE "select"
          /\ UNCHANGED << fields, clock, requests, tx_events,
                          pending_number >>]_vars

\* The loop stopped on the shutdown signal while a manual request and a
\* tx-pool event were waiting.
C6_Witness ==
    /\ pc = "stopped"
    /\ ev.op = "shutdown"
    /\ requests > 0
    /\ tx_events > 0

\* C7: the main select handles exactly one ready event per iteration, a
\* manual request before a tx-pool event and a tx-pool event before a timer
\* expiry; the events it does not handle stay pending.
C7_SelectPriority ==
    [][(LoopStep /\ ~shutdown /\ pc \in {"select", "manual"}) =>
          IF pc = "manual"
          THEN /\ ev'.op = "manual"
               /\ UNCHANGED << requests, tx_events, timer_event >>
          ELSE IF requests > 0
          THEN /\ ev'.op = "request"
               /\ requests' = requests - 1
               /\ UNCHANGED << tx_events, timer_event >>
          ELSE IF tx_events > 0
          THEN /\ ev'.op = "txpool"
               /\ tx_events' = tx_events - 1
               /\ UNCHANGED << requests, timer_event >>
          ELSE /\ ev'.op = "timer"
               /\ timer_event /\ ~timer_event'
               /\ UNCHANGED << requests, tx_events >>]_vars

\* A manual request was handled while a tx-pool event and a timer expiry
\* were ready; both are still pending.
C7_Witness ==
    /\ ev.op = "manual"
    /\ ev.cont = "true"
    /\ tx_events > 0
    /\ timer_event
    /\ pc = "gate"

\* The model's last height or last timestamp is reached.
Horizon == last_height = MaxHeight \/ last_timestamp + BlockTime > TaiMax

\* C8: under Trigger::Interval with a signing key, collaborators that never
\* fail and no shutdown, once the node is Synced a block is eventually
\* produced by a timer expiry (or the model's horizon is reached).
C8_IntervalEventuallyProduces ==
    (sync_state = "Synced") ~> ((ev.op = "timer" /\ ev.res = "ok") \/ Horizon)

\* C9: handling a tx-pool event in the main select runs a production if and
\* only if the trigger is Instant and pending_number > 0; under Never and
\* Interval it asks for no block and changes neither the fields, the timer
\* nor the pool.
C9_TxpoolEventProducesIffInstantAndPending ==
    [][(LoopStep /\ ev'.op = "txpool") =>
          /\ (ev'.res # "skip") <=> (trigger = "Instant" /\ pending_number > 0)
          /\ ev'.prod => (trigger = "Instant" /\ pending_number > 0)
          /\ trigger # "Instant" =>
                /\ ~ev'.prod
                /\ UNCHANGED << fields, clock, pending_number >>]_vars

\* Under Trigger::Instant a tx-pool event with a non-empty pool committed a
\* block.
C9_Witness ==
    /\ ev.op = "txpool"
    /\ ev.res = "ok"
    /\ trigger = "Instant"
    /\ last_height > 0

\* C10: without a signing key produce_block and produce_predefined_block
\* return their error before the block producer, the tx pool or the importer
\* is called, leave the fields, the timer and the pool unchanged, and the
\* task goes on.
C10_NoKeyIsAnEarlyNonFatalError ==
    [][(LoopStep /\ ~signing_key /\ ev'.op \in ProductionOps
            /\ ev'.res \notin {"skip", "time_overflow"}) =>
          /\ ev'.res = "no_key"
          /\ ~ev'.prod /\ ~ev'.rm /\ ~ev'.imp
          /\ UNCHANGED << fields, timer_deadline, pending_number >>
          /\ pc' = "gate"]_vars

\* A production without a signing key returned its error.
C10_Witness ==
    /\ ~signing_key
    /\ ev.res = "no_key"
    /\ ev.op \in ProductionOps
    /\ pc = "gate"

\* The first produce_block of a manual request whose start_time was given.
FirstManualBlock == pc = "manual" /\ ev.op = "request" /\ ev.start # NoTime

\* C11 as claimed: a manual request whose start_time is below last_timestamp
\* is answered with an error, asks for no block and leaves the fields, the
\* timer and the pool unchanged; a start_time at or above last_timestamp
\* passes the timestamp comparison and the first block committed carries it.
C11_ManualStartTimeIsValidated ==
    [][/\ (LoopStep /\ pc = "select" /\ ev'.op = "request"
              /\ ev'.start # NoTime /\ ev'.start < last_timestamp) =>
            ev'.resp # "ok"
       /\ (LoopStep /\ FirstManualBlock) =>
            /\ manual.time = ev.start
            /\ IF ev.start < last_timestamp
               THEN /\ ev'.resp = "err"
                    /\ ~ev'.prod /\ ~ev'.imp
                    /\ UNCHANGED << fields, clock, pending_number >>
               ELSE /\ ev'.res # "non_monotonic"
                    /\ ev'.res = "ok" => last_timestamp' = ev.start]_vars

\* C11 as amended: the same for a request that asks for at least one block;
\* a request for no block at all is answered Ok, whatever its start_time,
\* and changes nothing.
C11_ManualStartTimeIsValidatedPerBlock ==
    [][/\ (LoopStep /\ pc = "select" /\ ev'.op = "request"
              /\ ev'.resp = "ok") =>
            /\ manual' = NoManual
            /\ ~ev'.prod /\ ~ev'.imp
            /\ UNCHANGED << fields, clock, pending_number >>
       /\ (LoopStep /\ FirstManualBlock) =>
            /\ manual.time = ev.start
            /\ manual.left >= 1
            /\ IF ev.start < last_timestamp
               THEN /\ ev'.resp = "err"
                    /\ manual' = NoManual
                    /\ ~ev'.prod /\ ~ev'.imp
                    /\ UNCHANGED << fields, clock, pending_number >>
               ELSE /\ ev'.res # "non_monotonic"
                    /\ ev'.res = "ok" => last_timestamp' = ev.start]_vars

\* A manual request with a signing key and a start_time below last_timestamp
\* was answered with the timestamp error.
C11_Witness ==
    /\ ev.op = "manual"
    /\ ev.res = "non_monotonic"
    /\ ev.resp = "err"
    /\ pc = "gate"

\* C12: after a successful produce_block under Trigger::Interval the timer was
\* armed with (the Instant the production started) + block_time, a manual
\* production overwriting the deadline and a trigger-driven one keeping an
\* earlier deadline that is still armed; under Never and Instant the timer is
\* as it was.
C12_TimerFollowsTheMatrix ==
    [][(LoopStep /\ ev'.op \in {"manual", "txpool", "timer"}
            /\ ev'.res = "ok") =>
          /\ timer_deadline' =
                IF trigger # "Interval" THEN timer_deadline
                ELSE IF ev'.op = "manual" \/ timer_deadline = NoDeadline
                THEN now + BlockTime
                ELSE Min(timer_deadline, now + BlockTime)
          /\ last_block_created' = now
          /\ ev'.op # "timer" => timer_event' = timer_event]_vars

\* A timer-driven production found an earlier deadline armed (by a manual
\* production that ran while the expiry waited) and kept it.
C12_Witness ==
    /\ trigger = "Interval"
    /\ ev.op = "timer"
    /\ ev.res = "ok"
    /\ timer_deadline # NoDeadline
    /\ timer_deadline < now + BlockTime

\* C13: no unreachable! of the loop is ever hit: no step ends in its panic,
\* the timer is armed and fires only under Trigger::Interval, on_timer runs
\* only under Trigger::Interval and under Trigger::Never no tx-pool event or
\* timer expiry runs a production.
C13_UnreachableIsNeverHit ==
    /\ ev.res # "panic"
    /\ pc # "panicked"
    /\ trigger # "Interval" => (timer_deadline = NoDeadline /\ ~timer_event)
    /\ ev.op = "timer" => trigger = "Interval"
    /\ (trigger = "Never" /\ ev.op \in {"txpool", "timer"}) => ev.res = "skip"

\* Under Trigger::Never a tx-pool event was handled with transactions
\* waiting in the pool, and run() returned.
C13_Witness ==
    /\ trigger = "Never"
    /\ ev.op = "txpool"
    /\ pending_number > 0
    /\ pc = "gate"

(* ====================== the gas price service ========================= *)

\* The PoA loop as the specification of the gas price service holds it.
PoAIdle ==
    /\ trigger = "Never"
    /\ signing_key = FALSE
    /\ last_height = 0
    /\ last_timestamp = 0
    /\ last_block_created = now
    /\ timer_deadline = NoDeadline
    /\ timer_event = FALSE
    /\ sync_state = "NotSynced"
    /\ sync_changed = FALSE
    /\ requests = 0
    /\ tx_events = 0
    /\ pending_number = 0
    /\ shutdown = FALSE
    /\ pc = "new"
    /\ manual = NoManual
    /\ ev = Ev("none", "skip", "none", "none", FALSE, FALSE, FALSE)

GasInit ==
    /\ PoAIdle
    /\ OffChainIdle
    /\ \E height \in 0..1 : GasStart(height)

(* ------------------- the algorithm updater (a port) ------------------- *)

\* AlgorithmUpdaterV1::update_da_record_data for the bundles of a sequence:
\* the updater has taken that many more DA records.
update_da_record_data(updater, bundles) ==
    [updater EXCEPT !.da_records = Min(@ + Len(bundles), MaxRecords)]

\* AlgorithmUpdaterV1::update_l2_block_data accepts the successor of the last
\* height it took, and no other height (the tests of the service set
\* l2_block_height to block_height - 1 before they send the block, lines 596
\* and 693 of service.rs).
l2_block_accepted(updater, height) ==
    height = updater.l2_block_height + 1

update_l2_block_data(updater, height) ==
    [updater EXCEPT !.l2_block_height = height]

(* --------------------------- the L2 tick ------------------------------ *)

\* The calls of a tick that can return an error.
Failures ==
    { "none", "zero_capacity", "begin_transaction", "get_recorded_height",
      "update_da_record_data", "set_recorded_height",
      "update_l2_block_data", "set_metadata", "commit_transaction" }

\* What a tick leaves behind: its result, the updater in memory, the persisted
\* state, the published algorithm, the buffer, the bundles it gave to the
\* updater, and whether its storage transaction was committed.
Outcome(res, updater, stored, algo, buffer, applied, committed) ==
    [res |-> res, updater |-> updater, storage |-> stored, algo |-> algo,
     buffer |-> buffer, applied |-> applied, committed |-> committed]

Unchanged(res) ==
    Outcome(res, algorithm_updater, storage, shared_algo,
            da_block_costs_buffer, << >>, FALSE)

\* The height a tick writes as RecordedHeight: the end of the last bundle of
\* the buffer (lines 194-205: latest_recorded_height is overwritten by every
\* bundle).
latest_recorded_height_of(recorded, bundles) ==
    IF bundles = << >> THEN recorded ELSE bundles[Len(bundles)]

\* The bundles a tick gives to the updater (lines 194-205): the buffer in its
\* order, up to the bundle whose update_da_record_data fails.
bundles_applied_but_first(fail, at) ==
    IF fail = "update_da_record_data"
    THEN SubSeq(da_block_costs_buffer, 1, at)
    ELSE SubSeq(da_block_costs_buffer, 2, Len(da_block_costs_buffer))

bundles_applied(fail, at) ==
    IF fail = "update_da_record_data"
    THEN SubSeq(da_block_costs_buffer, 1, at)
    ELSE da_block_costs_buffer

\* A call of the tick returned an error (the ? of lines 188-228): the storage
\* transaction is dropped with what was written into it, nothing is published
\* and the buffer is kept; the updater in memory keeps what the calls before
\* the failure did to it.
TickAborted_recorded_height_written(res, updater, applied) ==
    Outcome(res, updater,
            [storage EXCEPT !.recorded_height =
                 latest_recorded_height_of(storage.recorded_height, applied)],
            shared_algo, da_block_costs_buffer, applied, FALSE)

TickAborted_algorithm_published(res, updater, applied) ==
    Outcome(res, updater, storage, updater, da_block_costs_buffer, applied,
            FALSE)

TickAborted(res, updater, applied) ==
    Outcome(res, updater, storage, shared_algo, da_block_costs_buffer, applied,
            FALSE)

\* The end of a tick whose calls all returned Ok (lines 223-234): the
\* transaction is committed with the metadata of the updater, the recorded
\* height and the unrecorded blocks; then the algorithm is published and the
\* buffer cleared.
TickCommitted_buffer_kept(updater, recorded, unrecorded, applied) ==
    Outcome("ok", updater,
            [metadata |-> updater, recorded_height |-> recorded,
             unrecorded_blocks |-> unrecorded],
            updater, da_block_costs_buffer, applied, TRUE)

TickCommitted(updater, recorded, unrecorded, applied) ==
    Outcome("ok", updater,
            [metadata |-> updater, recorded_height |-> recorded,
             unrecorded_blocks |-> unrecorded],
            updater, << >>, applied, TRUE)

\* handle_normal_block (lines 180-235).  "fail" names the call that returns an
\* error ("zero_capacity": the block has block_gas_capacity 0), "at" the number of bundles update_da_record_data took before it
\* failed.
handle_normal_block(height, fail, at) ==
    LET applied == bundles_applied(fail, at)
        with_da == update_da_record_data(algorithm_updater, applied)
        with_l2 == update_l2_block_data(with_da, height)
        recorded == latest_recorded_height_of(storage.recorded_height, applied)
        unrecorded == storage.unrecorded_blocks \cup {height}
    IN  IF fail \in {"zero_capacity", "begin_transaction",
                     "get_recorded_height"}
        THEN Unchanged(fail)
        ELSE IF fail \in {"update_da_record_data", "set_recorded_height"}
        THEN TickAborted(fail, with_da, applied)
        ELSE IF fail = "update_l2_block_data"
                \/ ~l2_block_accepted(with_da, height)
        THEN TickAborted("update_l2_block_data", with_da, applied)
        ELSE IF fail \in {"set_metadata", "commit_transaction"}
        THEN TickAborted(fail, with_l2, applied)
        ELSE TickCommitted(with_l2, recorded, unrecorded, applied)

\* apply_block_info_to_gas_algorithm (lines 237-269): the genesis block
\* persists the metadata of the updater and publishes its algorithm.
apply_block_info_to_gas_algorithm(block, fail, at) ==
    IF block.kind = "Genesis"
    THEN IF fail \in {"begin_transaction", "set_metadata", "commit_transaction"}
         THEN Unchanged(fail)
         ELSE Outcome("ok", algorithm_updater,
                      [storage EXCEPT !.metadata = algorithm_updater],
                      algorithm_updater, da_block_costs_buffer, << >>, TRUE)
    ELSE handle_normal_block(block.height, fail, at)

\* The failures a tick of a block can meet, each with its "at".
FailuresOf(block) ==
    LET n == Len(da_block_costs_buffer)
    IN  IF block.kind = "Genesis"
        THEN { << f, 0 >> : f \in {"none", "begin_transaction", "set_metadata",
                                   "commit_transaction"} }
        ELSE { << f, n >> : f \in Failures \ {"update_da_record_data",
                                              "set_recorded_height"} }
             \cup (IF n = 0 THEN {} ELSE { << "set_recorded_height", n >> })
             \cup { << "update_da_record_data", i - 1 >> : i \in 1..n }

\* notify_da_source_service_l2_block (lines 114-127).
notify_da_source_service_l2_block(block) ==
    IF block.kind = "Block" THEN block.height ELSE latest_l2_block

\* commit_block_data_to_algorithm (lines 100-112): latest_l2_block after a
\* tick with result res.  The ? of line 108 returns before the notification.
commit_block_data_to_algorithm_notifies_first(res, block) ==
    notify_da_source_service_l2_block(block)

commit_block_data_to_algorithm(res, block) ==
    IF res = "ok" THEN notify_da_source_service_l2_block(block)
    ELSE latest_l2_block

GasApply(t) ==
    /\ algorithm_updater' = t.updater
    /\ storage' = t.storage
    /\ shared_algo' = t.algo
    /\ da_block_costs_buffer' = t.buffer

(* ----------------------- the environment ------------------------------ *)

\* The L2 block source has a result ready; during shutdown, a result that
\* was waiting in the source behind the one taken last.  The source delivers
\* the blocks of the chain in their order: the genesis block before every
\* other block, and a block after the blocks below it (the updater has taken
\* no block that the source has not delivered).
L2Ready ==
    /\ gas_pc \in {"run", "shutdown"}
    /\ l2_block_source = NoResult
    /\ \E r \in SourceResults :
         /\ r.kind = "Genesis" =>
                latest_l2_block = 0 /\ algorithm_updater.l2_block_height = 0
         /\ r.kind = "Block" => r.height > algorithm_updater.l2_block_height
         /\ l2_block_source' = r
    /\ gas_ev' = GasEv("l2_ready", "none", NoHeight, << >>, FALSE)
    /\ UNCHANGED << vars, da_source_channel, da_block_costs_buffer,
                    algorithm_updater, storage, shared_algo, latest_l2_block,
                    recorded_height, gas_pc, da_source >>

(* ------------------------ the DA source service ----------------------- *)

\* What the oracle can answer with Ok: a Vec of bundles.
OracleAnswers ==
    UNION { [1..n -> Bundles] : n \in 0..MaxBundles }

\* The filter, were it to let pass the bundles that end at the tip.
filter_costs_up_to_l2_block_height(costs) ==
    SelectSeq(costs, LAMBDA b : b <= latest_l2_block)

\* The recorded height after the bundles of a sequence were sent, were it
\* the end of the bundle sent last.
advance_recorded_height_to_last(recorded, sent) ==
    IF sent = << >> THEN recorded ELSE sent[Len(sent)]

\* filter_costs_that_have_values_greater_than_l2_block_height
\* (da_source_service/service.rs, lines 123-136).
filter_costs_that_have_values_greater_than_l2_block_height(costs) ==
    SelectSeq(costs, LAMBDA b : b < latest_l2_block)

\* The recorded height after the bundles of a sequence were sent
\* (lines 112-118).
RECURSIVE advance_recorded_height(_, _)
advance_recorded_height(recorded, sent) ==
    IF sent = << >> THEN recorded
    ELSE advance_recorded_height(
             IF recorded = NoHeight \/ Head(sent) > recorded
             THEN Head(sent) ELSE recorded,
             Tail(sent))

\* process_block_costs (lines 95-121): its result and the bundles it sent.
\* "ok" is whether the oracle answered with Ok, "receiver" whether the channel
\* has a receiver: send fails without one, and the ? of line 111 ends the
\* poll at the first bundle.
process_block_costs(ok, costs, receiver) ==
    LET filtered ==
            filter_costs_that_have_values_greater_than_l2_block_height(costs)
    IN  IF ~ok THEN [res |-> "oracle_err", sent |-> << >>]
        ELSE IF filtered # << >> /\ ~receiver
        THEN [res |-> "send_err", sent |-> << >>]
        ELSE [res |-> "ok", sent |-> filtered]

\* TaskNextAction::always_continue (line 197): the task goes on, whatever the
\* result of the poll.
always_continue_unless_error(res) ==
    IF res = "ok" THEN "started" ELSE "stopped"

always_continue(res) == "started"

\* run of the DA source (lines 188-200): one tick of the poll interval.  The
\* channel has a receiver as long as the controller's task lives.  An
\* observed poll leaves the oracle's answer in the history.
DaPoll(observed) ==
    /\ da_source = "started"
    /\ \E ok \in BOOLEAN : \E costs \in OracleAnswers :
         LET p == process_block_costs(ok, costs,
                                      gas_pc \in {"run", "shutdown"})
         IN  /\ ~ok => costs = << >>
             /\ Len(da_source_channel) + Len(da_block_costs_buffer)
                    + Len(p.sent) <= MaxBundles
             /\ da_source_channel' = da_source_channel \o p.sent
             /\ recorded_height' =
                    advance_recorded_height(recorded_height, p.sent)
             /\ da_source' = always_continue(p.res)
             /\ gas_ev' = [GasEv("poll", p.res, NoHeight, << >>, FALSE)
                              EXCEPT !.answer =
                                  IF observed THEN costs ELSE << >>]
    /\ UNCHANGED << vars, l2_block_source, da_block_costs_buffer,
                    algorithm_updater, storage, shared_algo, latest_l2_block,
                    gas_pc >>

(* ----------------------------- run ------------------------------------ *)

\* run, the branch of the L2 block (lines 285-289), with
\* commit_block_data_to_algorithm (lines 100-112): the tick, and after a tick
\* that returned Ok the write of latest_l2_block.
RunL2Block ==
    /\ gas_pc = "run"
    /\ l2_block_source # NoResult
    /\ LET block == l2_block_source
       IN  /\ l2_block_source' = NoResult
           /\ IF block.kind = "Err"
              THEN /\ gas_ev' = GasEv("l2_block", "source_err", NoHeight,
                                      << >>, FALSE)
                   /\ UNCHANGED << da_block_costs_buffer, algorithm_updater,
                                   storage, shared_algo, latest_l2_block >>
              ELSE \E f \in FailuresOf(block) :
                     LET t == apply_block_info_to_gas_algorithm(block, f[1], f[2])
                     IN  /\ GasApply(t)
                         /\ latest_l2_block' =
                                commit_block_data_to_algorithm(t.res, block)
                         /\ gas_ev' = GasEv("l2_block", t.res, block.height,
                                            t.applied, t.committed)
    /\ UNCHANGED << vars, da_source_channel, recorded_height, gas_pc,
                    da_source >>

\* run, the branch of the DA channel (lines 290-302): the bundle is pushed
\* into the buffer.  The select is biased: the branch runs when no L2 block is
\* ready.
RunDaCosts ==
    /\ gas_pc = "run"
    /\ l2_block_source = NoResult
    /\ da_source_channel # << >>
    /\ da_block_costs_buffer' =
           Append(da_block_costs_buffer, Head(da_source_channel))
    /\ da_source_channel' = Tail(da_source_channel)
    /\ gas_ev' = GasEv("da_costs", "ok", NoHeight, << >>, FALSE)
    /\ UNCHANGED << vars, l2_block_source, algorithm_updater, storage,
                    shared_algo, latest_l2_block, recorded_height, gas_pc,
                    da_source >>

\* run, the first branch (lines 281-284): the watcher left the Started state,
\* run returns Stop and the runner calls shutdown.
RunStop ==
    /\ gas_pc = "run"
    /\ gas_pc' = "shutdown"
    /\ gas_ev' = GasEv("stop", "ok", NoHeight, << >>, FALSE)
    /\ UNCHANGED << vars, l2_block_source, da_source_channel,
                    da_block_costs_buffer, algorithm_updater, storage,
                    shared_algo, latest_l2_block, recorded_height, da_source >>

(* --------------------------- shutdown --------------------------------- *)

\* shutdown, one turn of its loop (lines 309-312): a block that is ready is
\* applied; an error of the tick is the result of shutdown.
ShutdownDrain ==
    /\ gas_pc = "shutdown"
    /\ l2_block_source.kind \in {"Genesis", "Block"}
    /\ LET block == l2_block_source
       IN  /\ l2_block_source' = NoResult
           /\ \E f \in FailuresOf(block) :
                LET t == apply_block_info_to_gas_algorithm(block, f[1], f[2])
                IN  /\ GasApply(t)
                    /\ gas_pc' = IF t.res = "ok" THEN "shutdown" ELSE "stopped_err"
                    /\ gas_ev' = GasEv("drain", t.res, block.height, t.applied,
                                       t.committed)
    /\ UNCHANGED << vars, da_source_channel, latest_l2_block, recorded_height,
                    da_source >>

\* shutdown, after its loop (lines 314-317): no block is ready, or the source
\* returned an error; the DA source is stopped and shutdown returns Ok.
ShutdownStopDa ==
    /\ gas_pc = "shutdown"
    /\ l2_block_source.kind \in {"None", "Err"}
    /\ l2_block_source' = NoResult
    /\ da_source' = "stopped"
    /\ gas_pc' = "stopped_ok"
    /\ gas_ev' = GasEv("stop_da", "ok", NoHeight, << >>, FALSE)
    /\ UNCHANGED << vars, da_source_channel, da_block_costs_buffer,
                    algorithm_updater, storage, shared_algo, latest_l2_block,
                    recorded_height >>

GasNext ==
    \/ L2Ready
    \/ DaPoll(FALSE)
    \/ RunL2Block
    \/ RunDaCosts
    \/ RunStop
    \/ ShutdownDrain
    \/ ShutdownStopDa

gas_vars == << vars, controller >>

GasSpec == GasInit /\ [][GasNext]_gas_vars

GasTypeOK ==
    /\ l2_block_source \in SourceResults \cup {NoResult}
    /\ da_source_channel \in UNION { [1..n -> Bundles] : n \in 0..MaxBundles }
    /\ da_block_costs_buffer \in UNION { [1..n -> Bundles] : n \in 0..MaxBundles }
    /\ algorithm_updater \in Updaters
    /\ storage.metadata \in Updaters
    /\ storage.recorded_height \in Bundles \cup {NoHeight}
    /\ storage.unrecorded_blocks \subseteq L2Heights
    /\ shared_algo \in Updaters
    /\ latest_l2_block \in L2Heights
    /\ recorded_height \in Bundles \cup {NoHeight}
    /\ gas_pc \in {"run", "shutdown", "stopped_ok", "stopped_err"}
    /\ da_source \in {"started", "stopped"}
    /\ gas_ev.op \in {"none", "l2_ready", "poll", "l2_block", "da_costs",
                      "stop", "drain", "stop_da", "notify", "recv", "drop"}

(* ------------------------ claims C14 - C20 ---------------------------- *)

\* A step that is a tick of an L2 block: the block was taken from the source
\* by run or by shutdown.
GasTick == gas_ev'.op \in {"l2_block", "drain"} /\ gas_ev'.height # NoHeight

NormalTick == GasTick /\ l2_block_source.kind = "Block"

\* The persisted metadata tell of DA records exactly when a recorded height is
\* persisted.
MetadataMatchesRecordedHeight ==
    (storage.metadata.da_records > 0) <=> (storage.recorded_height # NoHeight)

\* C14: a normal-block tick changes the persisted state only through one
\* commit.  A tick whose transaction was committed wrote the metadata of the
\* updater, the recorded height of the bundles it applied and the unrecorded
\* blocks together; a tick that failed at any step wrote none of them; no
\* other step writes; the persisted metadata and the persisted recorded height
\* always agree.
C14_TickWritesAllOrNothing ==
    /\ []MetadataMatchesRecordedHeight
    /\ [][ /\ storage' # storage => GasTick /\ gas_ev'.committed
           /\ NormalTick =>
                IF gas_ev'.res = "ok"
                THEN /\ gas_ev'.committed
                     /\ storage'.metadata = algorithm_updater'
                     /\ storage'.metadata.l2_block_height = gas_ev'.height
                     /\ storage'.recorded_height =
                            IF da_block_costs_buffer = << >>
                            THEN storage.recorded_height
                            ELSE da_block_costs_buffer[Len(da_block_costs_buffer)]
                     /\ gas_ev'.height \in storage'.unrecorded_blocks
                ELSE /\ ~gas_ev'.committed
                     /\ storage' = storage ]_gas_vars

\* A tick gave a bundle to the updater and failed at its commit: the updater
\* in memory has the bundle and the block, the persisted state has neither.
C14_Witness ==
    /\ gas_ev.op = "l2_block"
    /\ gas_ev.res = "commit_transaction"
    /\ gas_ev.applied # << >>
    /\ storage.recorded_height = NoHeight
    /\ storage.metadata # algorithm_updater

\* The maximum l2_blocks.end() of the bundles of a non-empty sequence.
MaxEnd(bundles) ==
    CHOOSE m \in { bundles[i] : i \in 1..Len(bundles) } :
        \A i \in 1..Len(bundles) : bundles[i] <= m

\* C15: after a committed tick that drained a non-empty buffer, the persisted
\* RecordedHeight is the maximum l2_blocks.end() of the bundles that were in
\* the buffer, in whatever order they were buffered.
C15_RecordedHeightIsMaxOfBuffer ==
    [][ NormalTick /\ gas_ev'.committed /\ da_block_costs_buffer # << >> =>
            storage'.recorded_height = MaxEnd(da_block_costs_buffer) ]_gas_vars

BufferShrinks ==
    /\ da_block_costs_buffer' # da_block_costs_buffer
    /\ \A b \in Bundles :
         da_block_costs_buffer' # Append(da_block_costs_buffer, b)

\* C17: after a tick that committed the buffer is empty, so that the bundles
\* of a committed tick are in no later tick; and the buffer loses bundles in
\* no other step than a tick that committed and published the algorithm of
\* the committed metadata.
C17_BufferClearedByCommittedTickOnly ==
    [][ /\ NormalTick /\ gas_ev'.committed => da_block_costs_buffer' = << >>
        /\ BufferShrinks =>
             /\ NormalTick /\ gas_ev'.committed
             /\ da_block_costs_buffer' = << >>
             /\ gas_ev'.applied = da_block_costs_buffer
             /\ storage'.metadata = algorithm_updater'
             /\ shared_algo' = storage'.metadata ]_gas_vars

\* A tick committed with a bundle, and the buffer is empty.
C17_Witness ==
    /\ gas_ev.op = "l2_block"
    /\ gas_ev.committed
    /\ gas_ev.applied # << >>
    /\ da_block_costs_buffer = << >>
    /\ shared_algo = storage.metadata

\* C18: latest_l2_block is written by no other step than the tick of run that
\* committed the block of that height; and every bundle a tick for height h
\* gives to the updater ends below h.
C18_DaCostsLagBehindCommittedBlocks ==
    [][ /\ latest_l2_block' # latest_l2_block =>
             /\ gas_ev'.op = "l2_block"
             /\ gas_ev'.committed
             /\ latest_l2_block' = gas_ev'.height
             /\ storage'.metadata.l2_block_height = latest_l2_block'
        /\ NormalTick =>
             \A i \in 1..Len(gas_ev'.applied) :
                 /\ gas_ev'.applied[i] < gas_ev'.height
                 /\ gas_ev'.applied[i] < latest_l2_block ]_gas_vars

\* The tick of a block committed with a bundle that ends below the block, and
\* latest_l2_block is the height of the block.
C18_Witness ==
    /\ gas_ev.op = "l2_block"
    /\ gas_ev.committed
    /\ gas_ev.applied # << >>
    /\ \A i \in 1..Len(gas_ev.applied) : gas_ev.applied[i] < gas_ev.height
    /\ latest_l2_block = gas_ev.height
    /\ storage.metadata.l2_block_height = gas_ev.height

\* C19: the published algorithm changes in no other step than a tick whose
\* transaction committed, and then to the algorithm of the metadata the tick
\* committed; a tick that failed leaves it as it was; so the published
\* algorithm is at all times the algorithm of the persisted metadata.
C19_AlgorithmPublishedAfterCommitOnly ==
    /\ [](shared_algo = storage.metadata)
    /\ [][ /\ shared_algo' # shared_algo =>
                /\ GasTick /\ gas_ev'.committed
                /\ shared_algo' = storage'.metadata
           /\ GasTick /\ ~gas_ev'.committed =>
                shared_algo' = shared_algo ]_gas_vars

\* A tick failed after it changed the updater in memory: the published
\* algorithm is still that of the persisted metadata, not that of the updater.
C19_Witness ==
    /\ gas_ev.op = "l2_block"
    /\ gas_ev.res = "set_metadata"
    /\ ~gas_ev.committed
    /\ algorithm_updater # shared_algo
    /\ shared_algo = storage.metadata

\* C20: after shutdown has returned, with Ok or with an error, the DA source
\* service is stopped and no block that was ready is left in the source.
C20_ShutdownStopsDaSource ==
    gas_pc \in {"stopped_ok", "stopped_err"} =>
        /\ da_source = "stopped"
        /\ l2_block_source = NoResult

(* =============== the DA source service on its own ==================== *)

\* The DA source with what it shares with the rest of the node: the mutex of
\* the latest L2 height, written by the controller after the ticks it
\* committed, and the broadcast channel, emptied by its receiver until the
\* receiver is dropped.  The polls are observed.

\* notify_da_source_service_l2_block (service.rs, lines 114-127), seen from the
\* DA source: the chain has grown and the mutex holds its new height.
NotifyL2Block ==
    /\ \E height \in L2Heights :
         /\ height > latest_l2_block
         /\ latest_l2_block' = height
    /\ gas_ev' = GasEv("notify", "ok", NoHeight, << >>, FALSE)
    /\ UNCHANGED << vars, l2_block_source, da_source_channel,
                    da_block_costs_buffer, algorithm_updater, storage,
                    shared_algo, recorded_height, gas_pc, da_source >>

\* da_source_channel.recv() (service.rs, line 290), seen from the DA source:
\* the receiver takes a bundle out of the channel.
ReceiverTakes ==
    /\ gas_pc = "run"
    /\ da_source_channel # << >>
    /\ da_source_channel' = Tail(da_source_channel)
    /\ gas_ev' = GasEv("recv", "ok", NoHeight, << >>, FALSE)
    /\ UNCHANGED << vars, l2_block_source, da_block_costs_buffer,
                    algorithm_updater, storage, shared_algo, latest_l2_block,
                    recorded_height, gas_pc, da_source >>

\* The controller's task has ended without stopping the DA source (the early
\* return of shutdown, service.rs line 311): the receiver is dropped.
ReceiverDropped ==
    /\ gas_pc = "run"
    /\ gas_pc' = "stopped_err"
    /\ gas_ev' = GasEv("drop", "ok", NoHeight, << >>, FALSE)
    /\ UNCHANGED << vars, l2_block_source, da_source_channel,
                    da_block_costs_buffer, algorithm_updater, storage,
                    shared_algo, latest_l2_block, recorded_height, da_source >>

DaNext ==
    \/ DaPoll(TRUE)
    \/ NotifyL2Block
    \/ ReceiverTakes
    \/ ReceiverDropped

DaSpec == GasInit /\ [][DaNext]_gas_vars

(* ------------------------ claims C21 - C23 ---------------------------- *)

\* A step that is a poll of the DA source, and the bundles it published.
PollStep == gas_ev'.op = "poll"

Published ==
    SubSeq(da_source_channel', Len(da_source_channel) + 1,
           Len(da_source_channel'))

Elements(seq) == { seq[i] : i \in 1..Len(seq) }

MaxOf(S) == CHOOSE h \in S : \A k \in S : k <= h

\* C22: recorded_height never decreases; a poll leaves it at the greatest of
\* its value before and the ends of the bundles the poll published (absent,
\* it is below every height); bundles the filter dropped or that were not
\* sent do not count; no other step changes it.
C22_RecordedHeightIsMaxOfPublished ==
    [][ /\ recorded_height' >= recorded_height
        /\ PollStep =>
             recorded_height'
                 = MaxOf({recorded_height} \cup Elements(Published))
        /\ ~PollStep => recorded_height' = recorded_height
      ]_gas_vars

\* A poll published a bundle and advanced recorded_height to its end, while
\* the oracle's answer held a bundle that ends higher and was filtered out.
C22_Witness ==
    /\ gas_ev.op = "poll"
    /\ gas_ev.res = "ok"
    /\ recorded_height # NoHeight
    /\ recorded_height \in Elements(da_source_channel)
    /\ \E c \in Elements(gas_ev.answer) :
         c >= latest_l2_block /\ c > recorded_height

\* C23: a poll in which the oracle returned an error publishes nothing and
\* leaves recorded_height as it was, and the task is still started after it,
\* so that the next tick of the interval polls again, with that
\* recorded_height.
C23_OracleErrorIsSwallowed ==
    [][ PollStep /\ gas_ev'.res = "oracle_err" =>
          /\ da_source_channel' = da_source_channel
          /\ recorded_height' = recorded_height
          /\ da_source' = "started"
      ]_gas_vars

\* The oracle failed in a poll that followed one which had published: the
\* height recorded then is still there and the task is started.
C23_Witness ==
    /\ gas_ev.op = "poll"
    /\ gas_ev.res = "oracle_err"
    /\ recorded_height # NoHeight
    /\ da_source = "started"

(* ------------- the key of the coins-to-spend index -------------------- *)
(* crates/fuel-core/src/graphql_api/storage/coins.rs, CoinsToSpendIndexKey. *)
(* A key is the sequence of its bytes; the byte at offset i of the source   *)
(* is the element i + 1 of the sequence.                                    *)

\* The variables of the PoA loop and those of the gas price service.
poa == << trigger, signing_key, last_height, last_timestamp,
          last_block_created, timer_deadline, timer_event, sync_state,
          sync_changed, requests, tx_events, pending_number, shutdown, pc,
          manual, ev >>
gas == << l2_block_source, da_source_channel, da_block_costs_buffer,
          algorithm_updater, storage, shared_algo, latest_l2_block,
          recorded_height, gas_pc, da_source, gas_ev >>

\* arr[from..to] and arr[from..] of a slice.
Slice(arr, from, to) == SubSeq(arr, from + 1, to)
SliceFrom(arr, from) == SubSeq(arr, from + 1, Len(arr))

\* The bytes of an unsigned integer, the least significant one first.
RECURSIVE to_le_bytes(_, _)
to_le_bytes(n, len) ==
    IF len = 0 THEN << >>
    ELSE << n % 256 >> \o to_le_bytes(n \div 256, len - 1)

\* u64::to_be_bytes, u16::to_be_bytes: the most significant byte first.
RECURSIVE to_be_bytes(_, _)
to_be_bytes(n, len) ==
    IF len = 0 THEN << >>
    ELSE Append(to_be_bytes(n \div 256, len - 1), n % 256)

\* u64::from_be_bytes, u16::from_be_bytes.
RECURSIVE from_be_bytes(_)
from_be_bytes(bytes) ==
    IF bytes = << >> THEN 0
    ELSE from_be_bytes(SubSeq(bytes, 1, Len(bytes) - 1)) * 256
             + bytes[Len(bytes)]

\* codec::primitive::utxo_id_to_bytes: the transaction id, then the output
\* index with its most significant byte first.
utxo_id_to_bytes(id) ==
    id.tx_id \o to_be_bytes(id.output_index, u16_BITS \div 8)

\* CoinsToSpendIndexKey::LEN.
LEN ==
    Address_LEN + AssetId_LEN + u8_BITS \div 8 + u64_BITS \div 8 + TxId_LEN + 2

\* Message::has_retryable_amount: the message carries data.
has_retryable_amount(message) == message.data # << >>

\* A coin key, were it to leave out the id of the coin.
from_coin_without_utxo_id(coin) ==
    coin.owner \o coin.asset_id \o << NON_RETRYABLE_BYTE >>
        \o to_be_bytes(coin.amount, u64_BITS \div 8)
        \o [i \in 1..(TxId_LEN + 2) |-> 0]

\* CoinsToSpendIndexKey::from_coin.  The fields are copied one after the
\* other into an array of LEN bytes, each at the offset where the one before
\* ended.
from_coin(coin) ==
    coin.owner \o coin.asset_id \o << NON_RETRYABLE_BYTE >>
        \o to_be_bytes(coin.amount, u64_BITS \div 8)
        \o utxo_id_to_bytes(coin.utxo_id)

\* A message key, were its flag always the non-retryable byte.
from_message_never_retryable(message, base) ==
    message.recipient \o base \o << NON_RETRYABLE_BYTE >>
        \o to_be_bytes(message.amount, u64_BITS \div 8)
        \o message.nonce \o MESSAGE_PADDING_BYTES

\* CoinsToSpendIndexKey::from_message.
from_message(message, base) ==
    message.recipient \o base
        \o << IF has_retryable_amount(message)
              THEN RETRYABLE_BYTE ELSE NON_RETRYABLE_BYTE >>
        \o to_be_bytes(message.amount, u64_BITS \div 8)
        \o message.nonce \o MESSAGE_PADDING_BYTES

\* The accessors of a key.
owner(key) == Slice(key, 0, Address_LEN)

asset_id(key) == Slice(key, Address_LEN, Address_LEN + AssetId_LEN)

retryable_flag(key) == key[Address_LEN + AssetId_LEN + 1]

amount(key) ==
    LET amount_start == Address_LEN + AssetId_LEN + u8_BITS \div 8
    IN  from_be_bytes(Slice(key, amount_start, amount_start + u64_BITS \div 8))

foreign_key_bytes(key) ==
    SliceFrom(key, Address_LEN + AssetId_LEN + u8_BITS \div 8
                       + u64_BITS \div 8)

\* CoinsToSpendIndexKey::utxo_id.  The offset adds the lengths of the owner,
\* of the asset and of the amount, not that of the flag.  try_into to a
\* [u8; 2] fails on a slice of another length, and expect panics.
utxo_id(key) ==
    LET offset == Address_LEN + AssetId_LEN + ItemAmount_BITS \div 8
        txid_start == 0 + offset
        txid_end == txid_start + TxId_LEN
        output_index_start == txid_end
        tx_id == Slice(key, txid_start, txid_end)
        output_index == SliceFrom(key, output_index_start)
    IN  IF Len(tx_id) # TxId_LEN \/ Len(output_index) # u16_BITS \div 8
        THEN [panicked |-> TRUE, tx_id |-> << >>, output_index |-> 0]
        ELSE [panicked |-> FALSE, tx_id |-> tx_id,
              output_index |-> from_be_bytes(output_index)]

\* The derived Ord of CoinsToSpendIndexKey: that of its array of bytes.
KeyLess(a, b) ==
    \E i \in 1..Len(a) :
        /\ i <= Len(b)
        /\ a[i] < b[i]
        /\ \A j \in 1..(i - 1) : a[j] = b[j]

(* ------------------- keys built and decoded --------------------------- *)

\* A coin or a message is given; its key is built; the accessors are applied
\* to the key.
KeyInit ==
    /\ PoAIdle
    /\ GasIdle
    /\ off_chain_db = [index |-> {}, coin_balances |-> << >>,
                       message_balances |-> << >>]
    /\ on_chain = [coins |-> {}, messages |-> {}, spent |-> {},
                   consumed |-> {}, genesis |-> FALSE]
    /\ \/ \E coin \in Coins :
            off_ev = OffEv("coin", coin, NoMessage, NoKey, NoDecoded,
                           NoResultYet)
       \/ \E message \in Messages :
            off_ev = OffEv("message", NoCoin, message, NoKey, NoDecoded,
                           NoResultYet)

KeyFromCoin ==
    /\ off_ev.op = "coin"
    /\ off_ev' = [off_ev EXCEPT !.op = "from_coin",
                                !.key = from_coin(off_ev.coin)]
    /\ UNCHANGED << poa, gas, off_chain_db, on_chain >>

KeyFromMessage ==
    /\ off_ev.op = "message"
    /\ off_ev' = [off_ev EXCEPT !.op = "from_message",
                                !.key = from_message(off_ev.message,
                                                     base_asset_id)]
    /\ UNCHANGED << poa, gas, off_chain_db, on_chain >>

KeyDecode ==
    /\ off_ev.op \in {"from_coin", "from_message"}
    /\ off_ev' =
         [off_ev EXCEPT
            !.op = IF off_ev.op = "from_coin"
                   THEN "decoded_coin" ELSE "decoded_message",
            !.decoded =
                [owner |-> owner(off_ev.key),
                 asset_id |-> asset_id(off_ev.key),
                 retryable_flag |-> retryable_flag(off_ev.key),
                 amount |-> amount(off_ev.key),
                 foreign_key_bytes |-> foreign_key_bytes(off_ev.key),
                 utxo_id |-> utxo_id(off_ev.key)]]
    /\ UNCHANGED << poa, gas, off_chain_db, on_chain >>

KeyNext == KeyFromCoin \/ KeyFromMessage \/ KeyDecode

all_vars == << poa, gas, off_chain >>

KeySpec == KeyInit /\ [][KeyNext]_all_vars

(* ------------------------ claims C24 - C27 ---------------------------- *)

\* C24: the accessors applied to the key of a coin return the owner, the
\* asset, the amount and the UtxoId of the coin, and none of them fails.
C24_CoinKeyRoundTrips ==
    off_ev.op = "decoded_coin" =>
        /\ off_ev.decoded.owner = off_ev.coin.owner
        /\ off_ev.decoded.asset_id = off_ev.coin.asset_id
        /\ off_ev.decoded.amount = off_ev.coin.amount
        /\ ~off_ev.decoded.utxo_id.panicked
        /\ off_ev.decoded.utxo_id.tx_id = off_ev.coin.utxo_id.tx_id
        /\ off_ev.decoded.utxo_id.output_index
               = off_ev.coin.utxo_id.output_index

\* The entries the index can hold for the sampled coins and messages: the key
\* and the fields it was built from.
Entries ==
    { [key |-> from_coin(c), owner |-> c.owner, asset_id |-> c.asset_id,
       retryable |-> FALSE, amount |-> c.amount] : c \in Coins }
    \cup
    { [key |-> from_message(m, base_asset_id), owner |-> m.recipient,
       asset_id |-> base_asset_id, retryable |-> has_retryable_amount(m),
       amount |-> m.amount] : m \in Messages }

\* A key has been built from the coin or the message of the state.
KeyBuilt ==
    off_ev.op \in {"from_coin", "from_message", "decoded_coin",
                   "decoded_message"}

OfCoin == off_ev.op \in {"from_coin", "decoded_coin"}

\* The entry of the key that was built.
Built ==
    IF OfCoin
    THEN [key |-> off_ev.key, owner |-> off_ev.coin.owner,
          asset_id |-> off_ev.coin.asset_id, retryable |-> FALSE,
          amount |-> off_ev.coin.amount]
    ELSE [key |-> off_ev.key, owner |-> off_ev.message.recipient,
          asset_id |-> base_asset_id,
          retryable |-> has_retryable_amount(off_ev.message),
          amount |-> off_ev.message.amount]

SameGroup(a, b) ==
    /\ a.owner = b.owner
    /\ a.asset_id = b.asset_id
    /\ a.retryable = b.retryable

\* C25, as stated: among the entries of one owner, asset and retryable flag,
\* the key of a is below the key of b if and only if the amount of a is below
\* the amount of b.
C25_KeyOrderIffAmountOrder ==
    KeyBuilt =>
        \A b \in Entries :
            SameGroup(Built, b) =>
                (KeyLess(Built.key, b.key) <=> Built.amount < b.amount)

\* C25, amended: among the entries of one owner, asset and retryable flag,
\* a smaller amount gives a smaller key, and a smaller key has a smaller or
\* the same amount (entries of the same amount are ordered by their foreign
\* keys).
C25_KeyOrderFollowsAmountOrder ==
    KeyBuilt =>
        \A b \in Entries :
            SameGroup(Built, b) =>
                /\ Built.amount < b.amount => KeyLess(Built.key, b.key)
                /\ b.amount < Built.amount => KeyLess(b.key, Built.key)
                /\ KeyLess(Built.key, b.key) => Built.amount <= b.amount

\* The key of a coin of amount 255 is below that of an entry of its group of
\* amount 256, and below that of another coin of amount 255.
C25_Witness ==
    /\ off_ev.op = "from_coin"
    /\ off_ev.coin.amount = 255
    /\ \E b, c \in Entries :
         /\ SameGroup(Built, b) /\ b.amount = 256
         /\ KeyLess(off_ev.key, b.key)
         /\ SameGroup(Built, c) /\ c.amount = 255
         /\ KeyLess(off_ev.key, c.key)

\* The byte of a number that 256^place multiplies.
ByteAt(n, place) == (n \div (256 ^ place)) % 256

\* C26: a key has LEN bytes: the owner at offsets 0..32, the asset at
\* 32..64, the flag at 64, the amount at 65..73 with its most significant
\* byte first, and 34 bytes after it: for a coin the tx id at 73..105 and the
\* output index at 105..107, most significant byte first; for a message the
\* nonce at 73..105 and 0xFF 0xFF.  The flag of a coin is 0x01.
C26_KeyLayout ==
    KeyBuilt =>
        LET key == off_ev.key
        IN  /\ Len(key) = LEN
            /\ Slice(key, 0, 32) = Built.owner
            /\ Slice(key, 32, 64) = Built.asset_id
            /\ key[64 + 1] \in {NON_RETRYABLE_BYTE, RETRYABLE_BYTE}
            /\ \A i \in 0..3 : key[65 + i + 1] = 0
            /\ \A i \in 4..7 : key[65 + i + 1] = ByteAt(Built.amount, 7 - i)
            /\ Len(SliceFrom(key, 73)) = 34
            /\ OfCoin =>
                 /\ key[64 + 1] = 1
                 /\ Slice(key, 73, 105) = off_ev.coin.utxo_id.tx_id
                 /\ key[105 + 1] = ByteAt(off_ev.coin.utxo_id.output_index, 1)
                 /\ key[106 + 1] = ByteAt(off_ev.coin.utxo_id.output_index, 0)
            /\ ~OfCoin =>
                 /\ Slice(key, 73, 105) = off_ev.message.nonce
                 /\ key[105 + 1] = 255
                 /\ key[106 + 1] = 255

\* The key of the coin of the test vector: amount 0x40414243 in the lower
\* four bytes, output index 0xFEFF.
C26_Witness ==
    /\ off_ev.op = "from_coin"
    /\ off_ev.coin.amount = 1078018627
    /\ off_ev.coin.utxo_id.output_index = 65279
    /\ Slice(off_ev.key, 65, 73) = << 0, 0, 0, 0, 64, 65, 66, 67 >>
    /\ SliceFrom(off_ev.key, 105) = << 254, 255 >>

\* C27: the key of a message holds the retryable byte at offset 64 exactly
\* when the message has data; the non-retryable byte is smaller than the
\* retryable byte; of two entries of one owner and asset, the non-retryable
\* one has the smaller key.
C27_NonRetryableSortsFirst ==
    /\ off_ev.op = "from_message" =>
         /\ has_retryable_amount(off_ev.message)
                <=> off_ev.key[64 + 1] = RETRYABLE_BYTE
         /\ ~has_retryable_amount(off_ev.message)
                <=> off_ev.key[64 + 1] = NON_RETRYABLE_BYTE
         /\ NON_RETRYABLE_BYTE < RETRYABLE_BYTE
    /\ KeyBuilt /\ ~Built.retryable =>
         \A b \in Entries :
             /\ b.owner = Built.owner
             /\ b.asset_id = Built.asset_id
             /\ b.retryable
             => KeyLess(Built.key, b.key)

\* What the keys do: the flag follows the data of the message, and of two
\* entries of one owner and asset the retryable one has the smaller key.
MessageFlagFollowsData ==
    /\ off_ev.op = "from_message" =>
         /\ has_retryable_amount(off_ev.message)
                <=> off_ev.key[64 + 1] = RETRYABLE_BYTE
         /\ ~has_retryable_amount(off_ev.message)
                <=> off_ev.key[64 + 1] = NON_RETRYABLE_BYTE
    /\ KeyBuilt /\ ~Built.retryable =>
         \A b \in Entries :
             /\ b.owner = Built.owner
             /\ b.asset_id = Built.asset_id
             /\ b.retryable
             => KeyLess(b.key, Built.key)

(* ------------------ the coins-to-spend index -------------------------- *)
(* The index is written by worker_service::process_executor_events, from   *)
(* the events of the executor and, at genesis, from the coins and messages  *)
(* of the snapshot (service/genesis/off_chain.rs); it is read by            *)
(* coins_to_spend (service/adapters/graphql_api/off_chain.rs).              *)

\* TableEntry<Coins> of the snapshot: the UtxoId is the key, the compressed
\* coin the value.  All the coins that can exist, in a fixed order.
CoinEntryList ==
    << [key |-> [tx_id |-> Bytes32(80), output_index |-> 0],
        value |-> [owner |-> Bytes32(0), amount |-> 256,
                   asset_id |-> base_asset_id]],
       [key |-> [tx_id |-> Bytes32(80), output_index |-> 1],
        value |-> [owner |-> Bytes32(0), amount |-> 1,
                   asset_id |-> base_asset_id]],
       [key |-> [tx_id |-> Bytes32Ending(80, 255), output_index |-> 0],
        value |-> [owner |-> Bytes32Ending(0, 0), amount |-> 256,
                   asset_id |-> base_asset_id]],
       [key |-> [tx_id |-> Bytes32Ending(80, 255), output_index |-> 1],
        value |-> [owner |-> Bytes32(0), amount |-> 256,
                   asset_id |-> Bytes32Ending(32, 0)]] >>
CoinEntries ==
    { CoinEntryList[i] : i \in 1..Min(MaxCoins, Len(CoinEntryList)) }

\* All the messages that can exist.  The nonce of the first is the tx id of
\* the first coins, byte for byte.
MessageList ==
    << [recipient |-> Bytes32(0), amount |-> 255, nonce |-> Bytes32(80),
        data |-> << >>],
       [recipient |-> Bytes32(0), amount |-> 1000,
        nonce |-> Bytes32Ending(80, 255), data |-> << 1 >>],
       [recipient |-> Bytes32Ending(0, 0), amount |-> 1,
        nonce |-> Bytes32Ending(80, 0), data |-> << >>] >>
AllMessages ==
    { MessageList[i] : i \in 1..Min(MaxMessages, Len(MessageList)) }

\* The Coin that process_coins builds from an entry of the snapshot, were it
\* to lose the amount.
coin_of_entry_without_amount(coin_entry) ==
    [utxo_id |-> coin_entry.key,
     owner |-> coin_entry.value.owner,
     amount |-> 0,
     asset_id |-> coin_entry.value.asset_id]

\* The Coin that process_coins builds from an entry of the snapshot
\* (genesis/off_chain.rs, lines 36-42).  The executor reports the same Coin
\* when the coin is created in a block or spent.
coin_of_entry(coin_entry) ==
    [utxo_id |-> coin_entry.key,
     owner |-> coin_entry.value.owner,
     amount |-> coin_entry.value.amount,
     asset_id |-> coin_entry.value.asset_id]

AllCoins == { [utxo_id |-> e.key, owner |-> e.value.owner,
               amount |-> e.value.amount, asset_id |-> e.value.asset_id] :
              e \in CoinEntries }

\* What process_executor_events does to the index for one event.
index_insert(index, key) == index \cup {key}
index_remove(index, key) == index \ {key}

\* process_messages and process_coins (genesis/off_chain.rs): every entry
\* becomes a MessageImported or a CoinCreated event.
process_messages(index, messages) ==
    index \cup { from_message(m, base_asset_id) : m \in messages }

process_coins(index, coins) ==
    index \cup { from_coin(coin_of_entry(e)) : e \in coins }

IndexInit ==
    /\ PoAIdle
    /\ GasIdle
    /\ OffChainIdle

\* execute_genesis_block: the messages of the snapshot, then its coins.
GenesisImport ==
    /\ ~on_chain.genesis
    /\ \E messages \in SUBSET AllMessages : \E coins \in SUBSET CoinEntries :
         /\ off_chain_db' =
              [off_chain_db EXCEPT
                 !.index = process_coins(process_messages(@, messages), coins)]
         /\ on_chain' =
              [on_chain EXCEPT
                 !.messages = messages,
                 !.coins = { [utxo_id |-> e.key, owner |-> e.value.owner,
                              amount |-> e.value.amount,
                              asset_id |-> e.value.asset_id] : e \in coins },
                 !.genesis = TRUE]
    /\ off_ev' = OffEv("genesis", NoCoin, NoMessage, NoKey, NoDecoded,
                       NoResultYet)
    /\ UNCHANGED << poa, gas >>

\* Event::CoinCreated of a block: a coin that did not exist.
CoinCreated ==
    /\ on_chain.genesis
    /\ \E coin \in AllCoins \ (on_chain.coins \cup on_chain.spent) :
         /\ off_chain_db' =
              [off_chain_db EXCEPT !.index = index_insert(@, from_coin(coin))]
         /\ on_chain' = [on_chain EXCEPT !.coins = @ \cup {coin}]
         /\ off_ev' = OffEv("coin_created", coin, NoMessage, from_coin(coin),
                            NoDecoded, NoResultYet)
    /\ UNCHANGED << poa, gas >>

\* Event::CoinSpent: a coin that exists.
CoinSpent ==
    /\ on_chain.genesis
    /\ \E coin \in on_chain.coins :
         /\ off_chain_db' =
              [off_chain_db EXCEPT !.index = index_remove(@, from_coin(coin))]
         /\ on_chain' = [on_chain EXCEPT !.coins = @ \ {coin},
                                         !.spent = @ \cup {coin}]
         /\ off_ev' = OffEv("coin_spent", coin, NoMessage, from_coin(coin),
                            NoDecoded, NoResultYet)
    /\ UNCHANGED << poa, gas >>

\* Event::MessageImported.
MessageImported ==
    /\ on_chain.genesis
    /\ \E message \in AllMessages \ (on_chain.messages \cup on_chain.consumed) :
         /\ off_chain_db' =
              [off_chain_db EXCEPT
                 !.index = index_insert(@, from_message(message, base_asset_id))]
         /\ on_chain' = [on_chain EXCEPT !.messages = @ \cup {message}]
         /\ off_ev' = OffEv("message_imported", NoCoin, message,
                            from_message(message, base_asset_id),
                            NoDecoded, NoResultYet)
    /\ UNCHANGED << poa, gas >>

\* Event::MessageConsumed.
MessageConsumed ==
    /\ on_chain.genesis
    /\ \E message \in on_chain.messages :
         /\ off_chain_db' =
              [off_chain_db EXCEPT
                 !.index = index_remove(@, from_message(message, base_asset_id))]
         /\ on_chain' = [on_chain EXCEPT !.messages = @ \ {message},
                                         !.consumed = @ \cup {message}]
         /\ off_ev' = OffEv("message_consumed", NoCoin, message,
                            from_message(message, base_asset_id),
                            NoDecoded, NoResultYet)
    /\ UNCHANGED << poa, gas >>

\* iter_all_by_prefix_keys: the keys of a table that begin with a prefix, in
\* ascending order.
RECURSIVE iter_all_by_prefix_keys(_, _)
iter_all_by_prefix_keys(table, prefix) ==
    LET keys == { k \in table : SubSeq(k, 1, Len(prefix)) = prefix }
    IN  IF keys = {} THEN << >>
        ELSE LET first == CHOOSE k \in keys :
                              \A other \in keys \ {k} : KeyLess(k, other)
             IN  << first >>
                     \o iter_all_by_prefix_keys(table \ {first}, prefix)

\* OffChainDatabase::coins_to_spend: utxo_id() of every key of the owner and
\* the asset, in the order of the keys; max is not read.  A panic of utxo_id
\* ends the call.
coins_to_spend(index, address, asset) ==
    LET key_prefix == address \o asset
        keys == iter_all_by_prefix_keys(index, key_prefix)
        all_utxo_ids == [i \in 1..Len(keys) |-> utxo_id(keys[i])]
    IN  IF \E i \in 1..Len(keys) : all_utxo_ids[i].panicked
        THEN [kind |-> "panic", ids |-> << >>, total |-> << >>]
        ELSE [kind |-> "ok",
              ids |-> [i \in 1..Len(keys) |->
                          [tx_id |-> all_utxo_ids[i].tx_id,
                           output_index |-> all_utxo_ids[i].output_index]],
              total |-> << >>]

CoinsToSpend ==
    /\ \E address \in Owners : \E asset \in Assets :
         off_ev' = OffEv("coins_to_spend", NoCoin, NoMessage,
                         address \o asset, NoDecoded,
                         coins_to_spend(off_chain_db.index, address, asset))
    /\ UNCHANGED << poa, gas, off_chain_db, on_chain >>

IndexNext ==
    \/ GenesisImport
    \/ CoinCreated
    \/ CoinSpent
    \/ MessageImported
    \/ MessageConsumed
    \/ CoinsToSpend

IndexSpec == IndexInit /\ [][IndexNext]_all_vars

(* ------------------------ claims C28 - C29 ---------------------------- *)

LiveKeys ==
    { from_coin(c) : c \in on_chain.coins }
        \cup { from_message(m, base_asset_id) : m \in on_chain.messages }

\* C28: after the genesis import and any events, the index holds one entry
\* for every coin and message that exists, and they are as many as the coins
\* and messages; it holds none for a coin that was spent or a message that
\* was consumed; the key an event removes is a key of the index, and the
\* index loses that key and no other.
C28_OneEntryPerLiveCoinOrMessage ==
    /\ [](/\ off_chain_db.index = LiveKeys
          /\ Cardinality(off_chain_db.index)
                 = Cardinality(on_chain.coins) + Cardinality(on_chain.messages)
          /\ \A c \in on_chain.spent : from_coin(c) \notin off_chain_db.index
          /\ \A m \in on_chain.consumed :
                 from_message(m, base_asset_id) \notin off_chain_db.index)
    /\ [][ off_ev'.op \in {"coin_spent", "message_consumed"} =>
             /\ off_ev'.key \in off_chain_db.index
             /\ off_chain_db'.index = off_chain_db.index \ {off_ev'.key}
         ]_all_vars

\* A coin that the genesis import or a block created has been spent, a
\* message has been consumed, and a coin and a message exist whose tx id and
\* nonce are the same bytes.
C28_Witness ==
    /\ off_ev.op = "coin_spent"
    /\ on_chain.consumed # {}
    /\ \E c \in on_chain.coins : \E m \in on_chain.messages :
         c.utxo_id.tx_id = m.nonce

\* The UtxoId that from_coin wrote into a key.
UtxoIdOf(key) ==
    [tx_id |-> Slice(key, 73, 105),
     output_index |-> from_be_bytes(SliceFrom(key, 105))]

\* C29: coins_to_spend returns, for every content of the index, the
\* identifiers of exactly the entries of the owner and the asset, in
\* ascending order of their amounts.
C29_CoinsToSpendReturnsEntriesByAmount ==
    off_ev.op = "coins_to_spend" =>
        LET matching ==
                { k \in off_chain_db.index :
                    owner(k) \o asset_id(k) = off_ev.key }
            ids == off_ev.result.ids
        IN  /\ off_ev.result.kind = "ok"
            /\ Len(ids) = Cardinality(matching)
            /\ \E keys \in [1..Len(ids) -> matching] :
                 /\ \A i, j \in 1..Len(ids) : i # j => keys[i] # keys[j]
                 /\ \A i \in 1..Len(ids) : ids[i] = UtxoIdOf(keys[i])
                 /\ \A i, j \in 1..Len(ids) :
                        i < j => amount(keys[i]) <= amount(keys[j])

\* What coins_to_spend does: it returns the empty sequence when the index has
\* no entry of the owner and the asset, and panics when it has one.
CoinsToSpendPanicsOnAnyEntry ==
    off_ev.op = "coins_to_spend" =>
        LET matching ==
                { k \in off_chain_db.index :
                    owner(k) \o asset_id(k) = off_ev.key }
        IN  IF matching = {}
            THEN off_ev.result.kind = "ok" /\ off_ev.result.ids = << >>
            ELSE off_ev.result.kind = "panic"

(* --------------------------- balances --------------------------------- *)
(* OffChainDatabase::balance (service/adapters/graphql_api/off_chain.rs)    *)
(* over the tables CoinBalances and MessageBalances                         *)
(* (graphql_api/storage/balances.rs).  An unsigned integer of the tables is *)
(* the sequence of its 16-bit digits, the most significant first: a u64 has *)
(* four of them, a u128 eight.                                              *)

\* Amount, the value of both tables, is u64; TotalBalanceAmount is the type
\* the API hands on as a U128 and narrows to a u64 with try_into
\* (schema/balance.rs).
Amount_BITS == 64
TotalBalanceAmount_BITS == 128
DigitBits == 16
Radix == 2 ^ DigitBits

\* A number all of whose digits are the same, and the number 1.
Digits(bits, digit) == [i \in 1..(bits \div DigitBits) |-> digit]
One(bits) == [Digits(bits, 0) EXCEPT ![bits \div DigitBits] = 1]
u64_MAX == Digits(Amount_BITS, Radix - 1)

\* `x as TotalBalanceAmount` of a u64: the value is kept, the upper digits
\* are zero.
as_TotalBalanceAmount(x) ==
    Digits(TotalBalanceAmount_BITS - Amount_BITS, 0) \o x

\* The carry out of the digits below digit i of a sum.
RECURSIVE carry_into(_, _, _)
carry_into(a, b, i) ==
    IF i = Len(a) THEN 0
    ELSE (a[i + 1] + b[i + 1] + carry_into(a, b, i + 1)) \div Radix

\* u128::checked_add: None when the sum has a carry out of its top digit.
checked_add(a, b) ==
    [overflow |-> carry_into(a, b, 0) = 1,
     sum |-> [i \in 1..Len(a) |-> (a[i] + b[i] + carry_into(a, b, i)) % Radix]]

\* storage_as_ref::<Table>().get(key)?.unwrap_or_default().
get_or_default(table, key) ==
    IF key \in DOMAIN table THEN table[key] ELSE Digits(Amount_BITS, 0)

\* BalancesKey::new (double_key!): the owner, then the asset.
BalancesKey(address, asset) == address \o asset

\* The balance, were the messages of the owner added for every asset.
balance_with_messages_for_any_asset(db, address, asset, base) ==
    LET coins == as_TotalBalanceAmount(
                     get_or_default(db.coin_balances,
                                    BalancesKey(address, asset)))
        messages == as_TotalBalanceAmount(
                        get_or_default(db.message_balances, address))
        total == checked_add(coins, messages)
    IN  IF total.overflow
        THEN [kind |-> "overflow", ids |-> << >>, total |-> << >>]
        ELSE [kind |-> "ok", ids |-> << >>, total |-> total.sum]

\* OffChainDatabase::balance.
balance(db, address, asset, base) ==
    LET coins == as_TotalBalanceAmount(
                     get_or_default(db.coin_balances,
                                    BalancesKey(address, asset)))
    IN  IF base = asset
        THEN LET messages == as_TotalBalanceAmount(
                                 get_or_default(db.message_balances, address))
                 total == checked_add(coins, messages)
             IN  IF total.overflow
                 THEN [kind |-> "overflow", ids |-> << >>, total |-> << >>]
                 ELSE [kind |-> "ok", ids |-> << >>, total |-> total.sum]
        ELSE [kind |-> "ok", ids |-> << >>, total |-> coins]

\* BalancesKey::address and BalancesKey::asset_id (double_key!).
key_address(key) == Slice(key, 0, Address_LEN)
key_asset_id(key) == Slice(key, Address_LEN, Address_LEN + AssetId_LEN)

\* iter_all_by_prefix_keys::<CoinBalances, _>(Some(owner)): the keys of the
\* table that begin with the owner.
coin_balances_keys(db, address) ==
    { key \in DOMAIN db.coin_balances : key_address(key) = address }

\* The body of the loop of balances for one key of CoinBalances: the total
\* of the asset of the key, or its overflow.
balance_entry(db, address, key, base) ==
    LET messages ==
            IF base = key_asset_id(key)
            THEN as_TotalBalanceAmount(
                     get_or_default(db.message_balances, address))
            ELSE Digits(TotalBalanceAmount_BITS, 0)
        coins == as_TotalBalanceAmount(get_or_default(db.coin_balances, key))
    IN  checked_add(coins, messages)

\* OffChainDatabase::balances: a BTreeMap from the assets of the owner's keys
\* in CoinBalances to their totals; the first overflow ends the call.
balances(db, address, base) ==
    LET keys == coin_balances_keys(db, address)
    IN  IF \E key \in keys : balance_entry(db, address, key, base).overflow
        THEN [kind |-> "overflow", ids |-> << >>, total |-> << >>]
        ELSE [kind |-> "ok", ids |-> << >>,
              total |-> [asset \in { key_asset_id(key) : key \in keys } |->
                           balance_entry(
                               db, address,
                               CHOOSE key \in keys :
                                   key_asset_id(key) = asset,
                               base).sum]]

\* The values a table can hold for a key: the smallest ones and the largest
\* ones.
Balances ==
    { Digits(Amount_BITS, 0), One(Amount_BITS),
      [u64_MAX EXCEPT ![Amount_BITS \div DigitBits] = Radix - 2], u64_MAX }

\* A table over some of the keys.
Tables(keys) == UNION { [D -> Balances] : D \in SUBSET keys }

\* The tables hold any balances of the owners.
BalanceInit ==
    /\ PoAIdle
    /\ GasIdle
    /\ on_chain = [coins |-> {}, messages |-> {}, spent |-> {},
                   consumed |-> {}, genesis |-> FALSE]
    /\ off_ev = OffEv("none", NoCoin, NoMessage, NoKey, NoDecoded, NoResultYet)
    /\ \E coin_balances \in
              Tables({ BalancesKey(o, a) : o \in Owners, a \in Assets }) :
       \E message_balances \in Tables(Owners) :
           off_chain_db = [index |-> {}, coin_balances |-> coin_balances,
                           message_balances |-> message_balances]

Balance ==
    /\ \E address \in Owners : \E asset \in Assets :
         off_ev' = OffEv("balance", NoCoin, NoMessage,
                         BalancesKey(address, asset), NoDecoded,
                         balance(off_chain_db, address, asset, base_asset_id))
    /\ UNCHANGED << poa, gas, off_chain_db, on_chain >>

BalancesOfOwner ==
    /\ \E address \in Owners :
         off_ev' = OffEv("balances", NoCoin, NoMessage, address, NoDecoded,
                         balances(off_chain_db, address, base_asset_id))
    /\ UNCHANGED << poa, gas, off_chain_db, on_chain >>

BalanceNext ==
    \/ Balance
    \/ BalancesOfOwner

BalanceSpec == BalanceInit /\ [][BalanceNext]_all_vars

(* ---------------------------- claim C30 ------------------------------- *)

\* C30: with u64::MAX coins of the base asset and a message balance of 1,
\* the balance of the owner in the base asset is the overflow error.
C30_BalanceOverflowsAtU64Max ==
    /\ off_ev.op = "balance"
    /\ off_ev.key = BalancesKey(Bytes32(0), base_asset_id)
    /\ get_or_default(off_chain_db.coin_balances, off_ev.key) = u64_MAX
    /\ get_or_default(off_chain_db.message_balances, Bytes32(0))
           = One(Amount_BITS)
    => off_ev.result.kind = "overflow"

\* What balance does: it never returns the overflow error, and with u64::MAX
\* coins and a message balance of 1 it returns 2^64.
BalanceNeverOverflows ==
    off_ev.op = "balance" =>
        /\ off_ev.result.kind = "ok"
        /\ /\ off_ev.key = BalancesKey(Bytes32(0), base_asset_id)
           /\ get_or_default(off_chain_db.coin_balances, off_ev.key) = u64_MAX
           /\ get_or_default(off_chain_db.message_balances, Bytes32(0))
                  = One(Amount_BITS)
           => off_ev.result.total = << 0, 0, 0, 1, 0, 0, 0, 0 >>

(* ---------------------------- claim C31 ------------------------------- *)

\* What a table holds for a key, a key it does not have counting as 0.
Held(table, key) ==
    IF key \in DOMAIN table THEN table[key] ELSE << 0, 0, 0, 0 >>

\* total is the sum of the u64 values a and b: the digits of a and b add up
\* to the digits of total, column by column, with the carries of the
\* addition, and no carry is left.
IsSumOf(total, a, b) ==
    LET n == Len(total)
        wide(x) == [i \in 1..n |-> IF i <= n - Len(x) THEN 0
                                  ELSE x[i - (n - Len(x))]]
    IN  \E carry \in [0..n -> {0, 1}] :
            /\ carry[0] = 0
            /\ carry[n] = 0
            /\ \A i \in 1..n :
                   wide(a)[i] + wide(b)[i] + carry[i]
                       = total[i] + Radix * carry[i - 1]

\* C31: balance(owner, asset, base) returns CoinBalances[(owner, asset)] +
\* MessageBalances[owner] when the asset is the base asset and
\* CoinBalances[(owner, asset)] alone otherwise, an entry a table does not
\* have counting as 0.
C31_BalanceIsCoinsPlusBaseMessages ==
    off_ev.op = "balance" =>
        LET address == SubSeq(off_ev.key, 1, 32)
            asset == SubSeq(off_ev.key, 33, 64)
            coins == Held(off_chain_db.coin_balances, off_ev.key)
            messages == Held(off_chain_db.message_balances, address)
        IN  /\ off_ev.result.kind = "ok"
            /\ Len(off_ev.result.total) = 8
            /\ IF asset = base_asset_id
               THEN IsSumOf(off_ev.result.total, coins, messages)
               ELSE IsSumOf(off_ev.result.total, coins, << 0, 0, 0, 0 >>)

\* The base asset of an owner with coins and messages, the sum carrying
\* into the upper half; and another asset of an owner with messages.
C31_Witness ==
    /\ off_ev.op = "balance"
    /\ \/ /\ off_ev.key = BalancesKey(Bytes32(0), base_asset_id)
          /\ off_ev.key \in DOMAIN off_chain_db.coin_balances
          /\ off_chain_db.coin_balances[off_ev.key] = u64_MAX
          /\ Bytes32(0) \in DOMAIN off_chain_db.message_balances
          /\ off_chain_db.message_balances[Bytes32(0)] = u64_MAX
          /\ off_ev.result.total
                 = << 0, 0, 0, 1, 65535, 65535, 65535, 65534 >>
       \/ /\ off_ev.key = BalancesKey(Bytes32(0), Bytes32Ending(32, 0))
          /\ off_ev.key \in DOMAIN off_chain_db.coin_balances
          /\ off_chain_db.coin_balances[off_ev.key] = One(Amount_BITS)
          /\ Bytes32(0) \in DOMAIN off_chain_db.message_balances
          /\ off_chain_db.message_balances[Bytes32(0)] = u64_MAX
          /\ off_ev.result.total = << 0, 0, 0, 0, 0, 0, 0, 1 >>

(* ---------------------------- claim C37 ------------------------------- *)

\* C37: balances(owner, base) agrees with balance(owner, asset, base): every
\* asset of the returned map has the value balance(owner, asset, base), and
\* every asset whose balance(owner, asset, base) is not zero is in the map,
\* the base asset of an owner with messages and no entry of CoinBalances
\* for the base asset included.
C37_BalancesAgreesWithBalance ==
    off_ev.op = "balances" =>
        LET address == off_ev.key
            map == off_ev.result.total
        IN  /\ off_ev.result.kind = "ok"
            /\ \A asset \in DOMAIN map :
                   map[asset]
                       = balance(off_chain_db, address, asset,
                                 base_asset_id).total
            /\ \A asset \in Assets :
                   balance(off_chain_db, address, asset, base_asset_id).total
                       # Digits(TotalBalanceAmount_BITS, 0)
                   => asset \in DOMAIN map

\* What balances does: the map has the assets of the owner's keys in
\* CoinBalances and no other, each with the value balance returns for it.
BalancesListsCoinBalancesKeys ==
    off_ev.op = "balances" =>
        LET address == off_ev.key
            map == off_ev.result.total
        IN  /\ off_ev.result.kind = "ok"
            /\ DOMAIN map =
                   { asset \in Assets :
                       BalancesKey(address, asset)
                           \in DOMAIN off_chain_db.coin_balances }
            /\ \A asset \in DOMAIN map :
                   map[asset]
                       = balance(off_chain_db, address, asset,
                                 base_asset_id).total

(* ---------------------------- claim C38 ------------------------------- *)

\* What tells two messages apart in the index: the recipient, whether the
\* message is retryable, the amount and the nonce.
MessageIdentity(message) ==
    << message.recipient, has_retryable_amount(message), message.amount,
       message.nonce >>

\* C38: the derivation of the key is injective.  Another coin (one that
\* differs in owner, asset, amount or utxo id) has another key than the coin
\* whose key was built; a message that differs in recipient, retryable flag,
\* amount or nonce has another key than the message whose key was built; the
\* key of a coin is the key of a message only for a coin of output index
\* 0xFFFF.
C38_KeyDerivationIsInjective ==
    /\ off_ev.op = "from_coin" =>
          /\ \A coin \in Coins :
                 coin # off_ev.coin => from_coin(coin) # off_ev.key
          /\ \A message \in Messages :
                 from_message(message, base_asset_id) = off_ev.key
                     => off_ev.coin.utxo_id.output_index = 65535
    /\ off_ev.op = "from_message" =>
          /\ \A message \in Messages :
                 MessageIdentity(message) # MessageIdentity(off_ev.message)
                     => from_message(message, base_asset_id) # off_ev.key
          /\ \A coin \in Coins :
                 from_coin(coin) = off_ev.key
                     => coin.utxo_id.output_index = 65535

\* The key of a coin of output index 0xFFFF was built, and a message has the
\* same key: the only collision there is.
C38_Witness ==
    /\ off_ev.op = "from_coin"
    /\ off_ev.coin.utxo_id.output_index = 65535
    /\ \E message \in Messages :
          from_message(message, base_asset_id) = off_ev.key
    /\ \A coin \in Coins :
          coin # off_ev.coin => from_coin(coin) # off_ev.key

(* ---------------------------- claim C36 ------------------------------- *)

\* C36: after every tick of the controller, one that returned Ok or one
\* that returned an error, the updater in memory is the state the persisted
\* metadata describes.
C36_UpdaterIsPersistedMetadataAfterEveryTick ==
    gas_ev.op \in {"l2_block", "drain"} /\ gas_ev.height # NoHeight
        => algorithm_updater = storage.metadata

\* What the ticks keep: a tick that committed leaves the updater and the
\* metadata equal, and the metadata is at no time ahead of the updater.
CommittedTickPersistsUpdater ==
    /\ gas_ev.committed => algorithm_updater = storage.metadata
    /\ storage.metadata.l2_block_height <= algorithm_updater.l2_block_height
    /\ storage.metadata.da_records <= algorithm_updater.da_records

(* ---------------------------- claim C32 ------------------------------- *)

\* A step of the loop made at the gate or in the inner select while the
\* sync state is NotSynced.
NotSyncedStep ==
    LoopStep /\ sync_state = "NotSynced" /\ pc \in {"gate", "syncing"}

\* C32: while the sync state is NotSynced a step of the loop takes a tx-pool
\* event or a timer expiry and drops it, or ends the task on shutdown: it
\* asks for no block and calls no importer, changes neither last_height nor
\* last_timestamp, takes no request from the channel, and leaves the inner
\* wait for the rest of run() only when the task is shut down; the loop
\* goes on to the rest of run() only once the sync state is Synced.
C32_NotSyncedDiscardsEvents ==
    /\ [][LoopStep /\ pc \in {"gate", "syncing"}
              /\ pc' \notin {"gate", "syncing"} =>
              \/ pc' = "stopped" /\ shutdown
              \/ pc' = "iter" /\ sync_state = "Synced"]_vars
    /\ [][NotSyncedStep =>
             /\ ev'.res = "skip" /\ ~ev'.prod /\ ~ev'.rm /\ ~ev'.imp
             /\ last_height' = last_height
             /\ last_timestamp' = last_timestamp
             /\ requests' = requests
             /\ manual' = manual
             /\ pc' \in {"gate", "syncing", "stopped"}
             /\ pc' = "stopped" => shutdown /\ pc = "syncing"
             /\ pc = "syncing" /\ pc' = "gate" =>
                    \/ tx_events > 0 /\ tx_events' = tx_events - 1
                                     /\ timer_event' = timer_event
                    \/ timer_event /\ ~timer_event'
                                   /\ tx_events' = tx_events]_vars

\* A timer expiry was dropped in the inner select while a manual request
\* waits in the channel and the node is not synced.
C32_Witness ==
    /\ ev.op = "sync_timer"
    /\ sync_state = "NotSynced"
    /\ requests > 0
    /\ pc = "gate"

(* ------------- the specification for C33 (liveness) ------------------- *)

\* The timer's expiry is handled and the block producer fails to assemble
\* the block (signal_produce_block returns Err, lines 340-350).
TimerFails == SelectTimer(FALSE) /\ ev'.res = "producer_err"

\* The loop of LiveSpec with a block producer that can fail at a timer
\* expiry and succeeds whenever it is asked again.
RetryNext == LiveEnv \/ LiveTime \/ LiveLoop \/ TimerFails

\* The fairness of LiveSpec: the task is polled, time passes, the deadline
\* clock fires its deadline; a production that can succeed does in the end.
RetrySpec ==
    /\ LiveInit
    /\ [][RetryNext]_vars
    /\ WF_vars(LiveLoop)
    /\ WF_vars(Tick)
    /\ WF_vars(ClockFire)

(* ---------------------------- claim C33 ------------------------------- *)

\* C33: under Trigger::Interval, after a production started by the timer
\* failed in block assembly, the timer expires again and a block is produced
\* at a later expiry (or the model's horizon is reached).
C33_FailedTimerProductionIsRetried ==
    (ev.op = "timer" /\ ev.res = "producer_err")
        ~> ((ev.op = "timer" /\ ev.res = "ok") \/ Horizon)

\* What the loop does, where no manual request arms the timer in between
\* (RetrySpec): a production started by the timer that did not commit its
\* block leaves the deadline clock disabled and without an expiry to hand
\* out, and run() returns the error.
FailedTimerProductionLeavesTimerDisabled ==
    [][LoopStep /\ ev'.op = "timer" /\ ev'.res \notin {"ok", "panic"} =>
          /\ timer_deadline' = NoDeadline
          /\ ~timer_event'
          /\ ev'.cont = "err"
          /\ pc' = "gate"]_vars

(* ---------------------------- claim C34 ------------------------------- *)

\* One produce_block of a manual request Blocks { number_of_blocks }.
ManualBlocksStep == LoopStep /\ pc = "manual" /\ manual.mode = "Blocks"

\* C34: a manual request Blocks { n } produces its blocks one after the
\* other and stops at the first failure: each block that is committed raises
\* last_height by one and a block that fails ends the request; the request
\* is answered once, when it ends; the answer is Ok if and only if the last
\* of the n blocks was committed.
C34_ManualBlocksAnswerOkIffAllCommitted ==
    [][ManualBlocksStep =>
          /\ last_height' = last_height + (IF ev'.res = "ok" THEN 1 ELSE 0)
          /\ ev'.res # "ok" => ev'.resp = "err"
          /\ ev'.resp = "none" <=> pc' = "manual"
          /\ ev'.resp = "ok" <=> ev'.res = "ok" /\ manual.left = 1]_vars

\* What produce_manual_blocks does: the answer is Ok if and only if the last
\* of the n blocks was committed and the time of a block after it can be
\* computed; a request whose next block time overflows ends there, with an
\* error, whether blocks are left or not.
ManualBlocksAnswerOkIffAllCommittedAndNextTime ==
    [][ManualBlocksStep =>
          LET next == next_time(last_timestamp', last_block_created',
                                "Manual", 0)
          IN  /\ last_height' = last_height
                                    + (IF ev'.res = "ok" THEN 1 ELSE 0)
              /\ ev'.res # "ok" => ev'.resp = "err"
              /\ ev'.resp = "none" <=> pc' = "manual"
              /\ ev'.resp = "ok" <=>
                     ev'.res = "ok" /\ manual.left = 1 /\ next # NoTime
              /\ ev'.res = "ok" /\ next = NoTime => ev'.resp = "err"]_vars

(* ---------------------------- claim C35 ------------------------------- *)

\* A step of the loop that ran produce_block: for a manual request, a
\* tx-pool event or a timer expiry.
ProduceBlockStep ==
    LoopStep /\ ev'.op \in {"manual", "txpool", "timer"} /\ ev'.res # "skip"

\* C35: produce_block hands the skipped transactions of the block producer
\* to txpool.remove_txs before it seals the block and calls the importer:
\* remove_txs is called in every production whose block producer returned a
\* block and in no other, the importer is called only after it, and a
\* production whose commit fails has taken the skipped transactions, and
\* nothing else, out of the pool.
C35_SkippedAreRemovedBeforeCommit ==
    [][ProduceBlockStep =>
          /\ ev'.rm <=> ev'.prod /\ ev'.res # "producer_err"
          /\ ev'.imp => ev'.rm
          /\ ~ev'.rm => pending_number' = pending_number
          /\ ev'.res = "commit_err" =>
                 /\ ev'.rm /\ ev'.imp
                 /\ \E a \in Answers("TxPool") :
                        /\ ~a.committed
                        /\ pending_number' = pending_number - a.skipped
                 /\ UNCHANGED fields]_vars

\* Under Trigger::Instant a tx-pool event started a production with one
\* transaction in the pool (on_txpool_event produces with a pool that is
\* not empty only); the commit failed and the pool is empty: the
\* transaction was skipped and removed.
C35_Witness ==
    /\ trigger = "Instant"
    /\ ev.op = "txpool"
    /\ ev.res = "commit_err"
    /\ ev.rm /\ ev.imp
    /\ pending_number = 0
    /\ pc = "gate"

(* ---------------------------- claim C39 ------------------------------- *)

\* C39: a value next_time returns, for either kind of request, any trigger
\* and any reading of the Tai64 clock, is at least last_timestamp; a
\* production started by a tx-pool event or a timer expiry never fails the
\* comparison of produce_block with last_timestamp; a next_time that
\* overflows ends the production with an error before anything is changed
\* or asked of the block producer.
C39_NextTimeIsNotBeforeLastTimestamp ==
    /\ [](\A request_type \in {"Manual", "Trigger"}, tai \in TaiTimes :
             LET time == next_time(last_timestamp, last_block_created,
                                   request_type, tai)
             IN  time # NoTime => time >= last_timestamp)
    /\ [][LoopStep /\ ev'.op \in {"txpool", "timer"} =>
              /\ ev'.res # "non_monotonic"
              /\ ev'.res = "ok" => last_timestamp' >= last_timestamp]_vars
    /\ [][LoopStep /\ ev'.res = "time_overflow" =>
              /\ UNCHANGED << fields, timer_deadline, pending_number >>
              /\ ~ev'.prod /\ ~ev'.rm /\ ~ev'.imp
              /\ ev'.cont = IF ev'.op = "request" THEN "true" ELSE "err"]_vars

\* A timer expiry under Trigger::Interval with last_timestamp at the end of
\* the range: next_time overflowed and run() returned the error.
C39_Witness ==
    /\ ev.op = "timer"
    /\ ev.res = "time_overflow"
    /\ last_timestamp = TaiMax
    /\ pc = "gate"

(* ---------------------------- claim C40 ------------------------------- *)

\* A step of the loop that read the sync state after the inner loop (lines
\* 572-574).
SyncAdoptionStep == LoopStep /\ ev'.op \in {"synced", "sync_changed"}

\* C40: last_height never decreases.  A production that commits raises it;
\* a sync update either takes last_height, last_timestamp and
\* last_block_created together from a header whose height is above
\* last_height, or leaves the three as they are; no other step changes
\* last_height.
C40_LastHeightNeverDecreases ==
    /\ [][last_height' >= last_height]_vars
    /\ [][Committed => last_height' > last_height]_vars
    /\ [][SyncAdoptionStep =>
              \/ UNCHANGED fields
              \/ \E header \in [height : 0..MaxHeight, time : TaiTimes],
                     tai \in TaiTimes :
                    /\ header.height > last_height
                    /\ last_height' = header.height
                    /\ last_timestamp' = header.time
                    /\ last_block_created'
                           = extract_block_info(header, tai).created]_vars
    /\ [][last_height' # last_height => Committed \/ SyncAdoptionStep]_vars

\* A sync update adopted the header of the block of height 2, and with it
\* the header's time and an Instant of creation in the past.
C40_Witness ==
    /\ ev.op \in {"synced", "sync_changed"}
    /\ last_height = 2
    /\ last_timestamp = 0
    /\ last_block_created < now
    /\ pc = "iter"

====
